---- MODULE Spec2Model ----
(***************************************************************************)
(* Maildir synchronisation engine of NeoMutt (maildir.c, found in this     *)
(* tree inside src/ncrypt/crypt_gpgme.c, lines 4480-6130).                 *)
(*                                                                         *)
(* A file name or path is a sequence of one-character strings, so that the *)
(* string functions of the code (strrchr, strchr, strpbrk, qsort of        *)
(* characters) are modelled by what they do.  The unique part of a name    *)
(* ("<epoch>.R<random>.<host>") is one symbol: "a", "b" for messages that  *)
(* are delivered by other programs, "x", "y" for names generated by        *)
(* maildir_commit_message()/maildir_msg_open_new().                        *)
(***************************************************************************)
EXTENDS Integers, Sequences, FiniteSets, TLC

\* ------------------------------------------------------------------------
\* Characters and C string helpers
\* ------------------------------------------------------------------------

\* Byte value of a character (ASCII), used by ch_compare().
Ord(c) ==
  CASE c = "," -> 44 [] c = "." -> 46 [] c = "/" -> 47 [] c = "2" -> 50
    [] c = ":" -> 58 [] c = "D" -> 68 [] c = "F" -> 70 [] c = "R" -> 82
    [] c = "S" -> 83 [] c = "T" -> 84 [] c = "X" -> 88 [] c = "a" -> 97
    [] c = "b" -> 98 [] c = "c" -> 99 [] c = "e" -> 101 [] c = "m" -> 109
    [] c = "n" -> 110 [] c = "p" -> 112 [] c = "r" -> 114 [] c = "t" -> 116
    [] c = "u" -> 117 [] c = "w" -> 119 [] c = "x" -> 120 [] c = "y" -> 121
    [] OTHER -> 0

\* strchr(): index of the first occurrence of c in s, 0 when absent.
StrChr(s, c) ==
  IF \E i \in 1..Len(s) : s[i] = c
    THEN CHOOSE i \in 1..Len(s) : s[i] = c /\ \A j \in 1..(i - 1) : s[j] # c
    ELSE 0

\* strrchr(): index of the last occurrence of c in s, 0 when absent.
StrRChr(s, c) ==
  IF \E i \in 1..Len(s) : s[i] = c
    THEN CHOOSE i \in 1..Len(s) : s[i] = c /\ \A j \in (i + 1)..Len(s) : s[j] # c
    ELSE 0

\* strpbrk(): index of the first character of s that is in cs, 0 when absent.
StrPBrk(s, cs) ==
  IF \E i \in 1..Len(s) : s[i] \in cs
    THEN CHOOSE i \in 1..Len(s) : s[i] \in cs /\ \A j \in 1..(i - 1) : s[j] \notin cs
    ELSE 0

\* mutt_str_startswith(s + (i-1), pre)
StartsWithAt(s, i, pre) ==
  /\ i >= 1
  /\ i + Len(pre) - 1 <= Len(s)
  /\ \A k \in 1..Len(pre) : s[i + k - 1] = pre[k]

\* The tail of s from index i (s + (i-1) in C).
StrFrom(s, i) == IF i > Len(s) THEN << >> ELSE SubSeq(s, i, Len(s))

\* The first n characters of s (mutt_str_copy with a buffer of n+1).
StrLeft(s, n) == IF n >= Len(s) THEN s ELSE SubSeq(s, 1, n)

NEW_DIR == <<"n", "e", "w">>
CUR_DIR == <<"c", "u", "r">>
TMP_DIR == <<"t", "m", "p">>
MARK    == <<":", "2", ",">>

\* "%s/%s"
PathJoin(dir, name) == dir \o <<"/">> \o name

\* The directory part and the entry name of a path "dir/name".
DirOf(path)  == StrLeft(path, StrRChr(path, "/") - 1)
NameOf(path) == StrFrom(path, StrRChr(path, "/") + 1)

\* ------------------------------------------------------------------------
\* Filename codec
\* ------------------------------------------------------------------------

\* ch_compare(): difference of the two bytes.
ch_compare(a, b) == Ord(a) - Ord(b)

\* qsort(tmp, strlen(tmp), 1, ch_compare): the characters in the order of
\* ch_compare (insertion of each character before the first greater one).
RECURSIVE InsertChar(_, _)
InsertChar(s, c) ==
  IF s = << >> THEN <<c>>
  ELSE IF ch_compare(Head(s), c) > 0 THEN <<c>> \o s
  ELSE <<Head(s)>> \o InsertChar(Tail(s), c)

RECURSIVE qsort_chars(_)
qsort_chars(s) ==
  IF s = << >> THEN << >>
  ELSE InsertChar(qsort_chars(SubSeq(s, 1, Len(s) - 1)), s[Len(s)])

\* email_new() + maildir_edata_new(): a zeroed Email.  maildir_flags = << >>
\* stands for the NULL pointer (the code never stores an empty string).
email_new ==
  [path |-> << >>, flagged |-> FALSE, replied |-> FALSE, read |-> FALSE,
   old |-> FALSE, deleted |-> FALSE, trash |-> FALSE, purge |-> FALSE,
   changed |-> FALSE, active |-> FALSE, attach_del |-> FALSE,
   maildir_flags |-> << >>, index |-> 0]

\* A variant that writes no suffix for an email that is old and has no
\* flag.
maildir_gen_flags_flagged(e) ==
  IF e.flagged \/ e.replied \/ e.read \/ e.deleted \/ e.maildir_flags # << >>
    THEN LET tmp == (IF e.flagged THEN <<"F">> ELSE << >>)
                    \o (IF e.replied THEN <<"R">> ELSE << >>)
                    \o (IF e.read THEN <<"S">> ELSE << >>)
                    \o (IF e.deleted THEN <<"T">> ELSE << >>)
                    \o e.maildir_flags
         IN MARK \o (IF e.maildir_flags # << >> THEN qsort_chars(tmp) ELSE tmp)
    ELSE << >>

\* A variant that appends the other letters without sorting.
maildir_gen_flags_append(e) ==
  IF e.flagged \/ e.replied \/ e.read \/ e.deleted \/ e.old \/ e.maildir_flags # << >>
    THEN MARK \o (IF e.flagged THEN <<"F">> ELSE << >>)
              \o (IF e.replied THEN <<"R">> ELSE << >>)
              \o (IF e.read THEN <<"S">> ELSE << >>)
              \o (IF e.deleted THEN <<"T">> ELSE << >>)
              \o e.maildir_flags
    ELSE << >>

\* maildir_gen_flags(): the suffix for an email.
maildir_gen_flags(e) ==
  IF e.flagged \/ e.replied \/ e.read \/ e.deleted \/ e.old \/ e.maildir_flags # << >>
    THEN LET tmp == (IF e.flagged THEN <<"F">> ELSE << >>)
                    \o (IF e.replied THEN <<"R">> ELSE << >>)
                    \o (IF e.read THEN <<"S">> ELSE << >>)
                    \o (IF e.deleted THEN <<"T">> ELSE << >>)
                    \o e.maildir_flags
         IN MARK \o (IF e.maildir_flags # << >> THEN qsort_chars(tmp) ELSE tmp)
    ELSE << >>

\* The while (*p) loop of maildir_parse_flags() from index i of path.
RECURSIVE parse_flags_loop(_, _, _, _)
parse_flags_loop(e, path, i, c_flag_safe) ==
  IF i > Len(path) THEN e
  ELSE LET c == path[i]
           e1 == CASE c = "F" -> [e EXCEPT !.flagged = TRUE]
                   [] c = "R" -> [e EXCEPT !.replied = TRUE]
                   [] c = "S" -> [e EXCEPT !.read = TRUE]
                   [] c = "T" -> IF ~e.flagged \/ ~c_flag_safe
                                   THEN [e EXCEPT !.trash = TRUE, !.deleted = TRUE]
                                   ELSE e
                   [] OTHER   -> [e EXCEPT !.maildir_flags = Append(@, c)]
       IN parse_flags_loop(e1, path, i + 1, c_flag_safe)

\* maildir_parse_flags(): flags of an email from its file name.
maildir_parse_flags(e, path, c_flag_safe) ==
  LET e0 == [e EXCEPT !.flagged = FALSE, !.read = FALSE, !.replied = FALSE]
      p  == StrRChr(path, ":")
  IN IF p > 0 /\ StartsWithAt(path, p + 1, <<"2", ",">>)
       THEN parse_flags_loop([e0 EXCEPT !.maildir_flags = << >>], path, p + 3, c_flag_safe)
       ELSE e0

\* A variant that cuts the name at the first ':' only.
maildir_canon_filename_colon(src) ==
  LET t == StrRChr(src, "/")
      s == IF t > 0 THEN StrFrom(src, t + 1) ELSE src
      u == StrChr(s, ":")
  IN IF u > 0 THEN StrLeft(s, u - 1) ELSE s

\* maildir_canon_filename(): the name without directory and without flags.
maildir_canon_filename(src) ==
  LET t == StrRChr(src, "/")
      s == IF t > 0 THEN StrFrom(src, t + 1) ELSE src
      u == StrPBrk(s, {",", ":"})
  IN IF u > 0 THEN StrLeft(s, u - 1) ELSE s

\* ------------------------------------------------------------------------
\* Bounds of the model
\* ------------------------------------------------------------------------

\* Last value of the clock that stamps directory modification times.
MaxTime == 2
\* Most files in new/ and cur/ together when another program adds one.
MaxFiles == 3
\* Most changes other programs make to the mailbox in one behaviour.
MaxExtOps == 2
\* The same while the application changes flags and writes them back.
MaxSyncExtOps == 1
\* Most flag changes the application makes in one behaviour.
MaxAppOps == 2
\* Most attempts of one maildir_commit_message() that are remembered.
MaxTries == 3
\* Most messages the application opens in one behaviour.
MaxOpens == 5
\* The largest value of new_hits and cur_hits up to which the rewrites of
\* a sync are followed.
MaxHits == 1
\* Most renames of other programs while the application opens messages.
MaxFindExtOps == 2

\* ------------------------------------------------------------------------
\* State
\* ------------------------------------------------------------------------

VARIABLES
  files,      \* the directory entries of tmp/, new/ and cur/: a set of files
  now,        \* the file system clock
  dir_mtime,  \* st_mtime of new/ and cur/
  emails,     \* m->emails[0 .. m->msg_count-1], 1-based here
  m_mtime,    \* m->mtime (new/) and mdata->mtime_cur (cur/)
  cfg,        \* the configuration: flag_safe, maildir_trash, mark_old, check_new
  pc,         \* position of the engine: "idle", or inside maildir_mbox_sync()
  sync_i,     \* loop index i of maildir_mbox_sync() (0-based, as in the code)
  sync_check, \* the local variable check of maildir_mbox_sync()
  last,       \* what the engine call of the last step did (history, for the properties)
  ext_ops,    \* number of changes other programs made so far
  app_ops,    \* number of flag changes the application made so far
  msgs,       \* struct Message of every process that writes a new message
  hits,       \* the static counters new_hits and cur_hits of maildir_open_find_message()
  mstat,      \* m->msg_count, msg_unread, msg_flagged, msg_new, has_new, last_visited, type
  adata,      \* struct NmAccountData of the notmuch account: db, longrun, trans
  check_mda   \* changed and mda of a maildir_mbox_check() that has listed new/

vars == <<files, now, dir_mtime, emails, m_mtime, cfg, pc, sync_i, sync_check, last,
          ext_ops, app_ops, msgs, hits, mstat, adata, check_mda>>

\* enum MxStatus
MX_STATUS_ERROR    == "MX_STATUS_ERROR"
MX_STATUS_OK       == "MX_STATUS_OK"
MX_STATUS_NEW_MAIL == "MX_STATUS_NEW_MAIL"
MX_STATUS_REOPENED == "MX_STATUS_REOPENED"
MX_STATUS_FLAGS    == "MX_STATUS_FLAGS"

\* Flags for maildir_mbox_check(): the set of changed subdirectories.
MMC_NO_DIRS == {}
MMC_NEW_DIR == {"new"}
MMC_CUR_DIR == {"cur"}

SubdirName(d) == IF d = "new" THEN NEW_DIR ELSE CUR_DIR

\* ------------------------------------------------------------------------
\* The file system (POSIX calls used by the engine)
\* ------------------------------------------------------------------------

\* A file: its path below the mailbox, inode, size (0 = empty), whether
\* fopen(path, "r") succeeds, whose content it holds (0 = a message of
\* another program) and whether the content has reached the disk.
File(path, ino, size, perm, by, durable) ==
  [path |-> path, ino |-> ino, size |-> size, perm |-> perm, by |-> by,
   durable |-> durable]

Exists(fs, path) == \E f \in fs : f.path = path
FileAt(fs, path) == CHOOSE f \in fs : f.path = path

\* The entries of a subdirectory.
DirEntries(fs, dir) == {f \in fs : DirOf(f.path) = dir}

\* rename(2): fails when oldpath is missing; replaces an existing newpath.
posix_rename(fs, oldpath, newpath) ==
  IF ~Exists(fs, oldpath) THEN [rc |-> -1, fs |-> fs]
  ELSE LET f == FileAt(fs, oldpath)
       IN [rc |-> 0,
           fs |-> {g \in fs : g.path # oldpath /\ g.path # newpath}
                    \cup {[f EXCEPT !.path = newpath]}]

\* A variant of unlink(2) that leaves the file in place.
posix_unlink_keep(fs, path) == fs

\* unlink(2)
posix_unlink(fs, path) == {g \in fs : g.path # path}

\* The directories whose entries differ between two file systems get the
\* current time as their st_mtime.
Stamp(mt, fs1, fs2, t) ==
  [d \in {"new", "cur"} |->
     IF {f.path : f \in DirEntries(fs1, SubdirName(d))}
          # {f.path : f \in DirEntries(fs2, SubdirName(d))}
       THEN t ELSE mt[d]]

\* ------------------------------------------------------------------------
\* Directory scanner
\* ------------------------------------------------------------------------

\* struct MdEmail; email is << >> for a NULL pointer, <<e>> otherwise.
maildir_entry_new(e, inode) ==
  [email |-> <<e>>, inode |-> inode, header_parsed |-> FALSE, canon_fname |-> << >>]

\* An inode number (ino_t, 64 bits) is held in three parts, because the
\* numbers of the checker have 32 bits: hi = bits 32..63, l1 = bits 16..31,
\* l0 = bits 0..15.
ino_t(n) == [hi |-> 0, l1 |-> n \div 65536, l0 |-> n % 65536]

\* maildir_cmp_inode(): the difference of the inodes, converted to int
\* (32 bits): the low 32 bits of the difference, read as a signed number.
maildir_cmp_inode(ma, mb) ==
  LET a == ma.inode
      b == mb.inode
      d0 == (a.l0 - b.l0) % 65536
      borrow == IF a.l0 < b.l0 THEN 1 ELSE 0
      d1 == (a.l1 - b.l1 - borrow) % 65536
  IN IF d1 >= 32768 THEN (d1 - 65536) * 65536 + d0 ELSE d1 * 65536 + d0

\* ARRAY_SORT(mda, maildir_cmp_inode)
RECURSIVE InsertEntry(_, _)
InsertEntry(s, x) ==
  IF s = << >> THEN <<x>>
  ELSE IF maildir_cmp_inode(Head(s), x) > 0 THEN <<x>> \o s
  ELSE <<Head(s)>> \o InsertEntry(Tail(s), x)

RECURSIVE ARRAY_SORT(_)
ARRAY_SORT(mda) ==
  IF mda = << >> THEN << >>
  ELSE InsertEntry(ARRAY_SORT(SubSeq(mda, 1, Len(mda) - 1)), mda[Len(mda)])

\* The entries readdir() returns for a directory, here in inode order.
RECURSIVE ReadDirSeq(_)
ReadDirSeq(fset) ==
  IF fset = {} THEN << >>
  ELSE LET f == CHOOSE g \in fset : \A h \in fset : g.ino < h.ino \/ g = h
                                                    \/ (g.ino = h.ino /\ Len(g.path) <= Len(h.path))
       IN <<f>> \o ReadDirSeq(fset \ {f})

\* The body of the readdir() loop of maildir_parse_dir() for the entries de.
RECURSIVE parse_dir_loop(_, _, _, _, _)
parse_dir_loop(mda, de, subdir, is_old, c_flag_safe) ==
  IF de = << >> THEN mda
  ELSE LET d_name == NameOf(Head(de).path)
           e == [maildir_parse_flags([email_new EXCEPT !.old = is_old], d_name, c_flag_safe)
                   EXCEPT !.path = PathJoin(subdir, d_name)]
       IN IF Head(d_name) = "."
            THEN parse_dir_loop(mda, Tail(de), subdir, is_old, c_flag_safe)
            ELSE parse_dir_loop(Append(mda, maildir_entry_new(e, ino_t(Head(de).ino))),
                                Tail(de), subdir, is_old, c_flag_safe)

\* maildir_parse_dir(): rc and the array.  open_fails: opendir() fails;
\* sigint >= 0: SigInt is raised after that many entries were read.
maildir_parse_dir(fs, mda, subdir, c_mark_old, c_flag_safe, open_fails, sigint) ==
  LET is_old == IF c_mark_old THEN subdir = CUR_DIR ELSE FALSE
      all == ReadDirSeq(DirEntries(fs, subdir))
      de == IF sigint >= 0 THEN StrLeft(all, sigint) ELSE all
      got == parse_dir_loop(mda, de, subdir, is_old, c_flag_safe)
  IN IF open_fails THEN [rc |-> -1, mda |-> mda]
     ELSE IF sigint >= 0 THEN [rc |-> -2, mda |-> got]
     ELSE [rc |-> 0, mda |-> ARRAY_SORT(got)]

\* ------------------------------------------------------------------------
\* Message loader
\* ------------------------------------------------------------------------

\* A variant that takes an empty file for a message.
maildir_parse_stream_empty(f, fname, is_old, e, c_flag_safe) ==
  <<maildir_parse_flags([e EXCEPT !.index = -1, !.old = is_old], fname, c_flag_safe)>>

\* maildir_parse_stream() on an open file f: << >> for NULL.
maildir_parse_stream(f, fname, is_old, e, c_flag_safe) ==
  IF f.size = 0 THEN << >>
  ELSE <<maildir_parse_flags([e EXCEPT !.index = -1, !.old = is_old], fname, c_flag_safe)>>

\* maildir_parse_message(): fopen() and maildir_parse_stream().
maildir_parse_message(fs, fname, is_old, e, c_flag_safe) ==
  IF ~Exists(fs, fname) \/ ~FileAt(fs, fname).perm THEN << >>
  ELSE maildir_parse_stream(FileAt(fs, fname), fname, is_old, e, c_flag_safe)

\* A variant that gives up every email it is asked to parse.
maildir_delayed_parsing_drop(fs, mda, c_flag_safe) ==
  [k \in 1..Len(mda) |->
     IF mda[k].email = << >> \/ mda[k].header_parsed THEN mda[k]
     ELSE [mda[k] EXCEPT !.email = << >>]]

\* maildir_delayed_parsing() (without header cache): the second pass.
maildir_delayed_parsing(fs, mda, c_flag_safe) ==
  [k \in 1..Len(mda) |->
     LET md == mda[k]
     IN IF md.email = << >> \/ md.header_parsed THEN md
        ELSE LET r == maildir_parse_message(fs, md.email[1].path, md.email[1].old,
                                            md.email[1], c_flag_safe)
             IN IF r # << >> THEN [md EXCEPT !.email = r, !.header_parsed = TRUE]
                ELSE [md EXCEPT !.email = << >>]]

\* maildir_move_to_mailbox(): appends the emails left in mda to m->emails
\* and returns their number.
RECURSIVE maildir_move_to_mailbox(_, _)
maildir_move_to_mailbox(es, mda) ==
  IF mda = << >> THEN es
  ELSE IF Head(mda).email = << >> THEN maildir_move_to_mailbox(es, Tail(mda))
  ELSE maildir_move_to_mailbox(
         Append(es, [Head(mda).email[1] EXCEPT !.index = Len(es)]), Tail(mda))

\* maildir_update_flags(): the flags of e_old become those found on disk;
\* the result tells whether one of them changed.
maildir_update_flags(e_old, e_new) ==
  [email |-> [e_old EXCEPT !.flagged = e_new.flagged, !.replied = e_new.replied,
                           !.read = e_new.read, !.old = e_new.old, !.changed = FALSE],
   header_changed |-> \/ e_old.flagged # e_new.flagged
                      \/ e_old.replied # e_new.replied
                      \/ e_old.read # e_new.read
                      \/ e_old.old # e_new.old]

\* ------------------------------------------------------------------------
\* Counting without loading: maildir_check_dir(), maildir_mbox_check_stats()
\* ------------------------------------------------------------------------

\* strstr(): index of the first occurrence of pre in s, 0 when absent.
StrStr(s, pre) ==
  IF \E i \in 1..Len(s) : StartsWithAt(s, i, pre)
    THEN CHOOSE i \in 1..Len(s) :
           StartsWithAt(s, i, pre) /\ \A j \in 1..(i - 1) : ~StartsWithAt(s, j, pre)
    ELSE 0

\* The counters of a struct Mailbox that was just made, with the time
\* the user last left it.
mailbox_new ==
  [msg_count |-> 0, msg_unread |-> 0, msg_flagged |-> 0, msg_new |-> 0, has_new |-> FALSE,
   last_visited |-> 0, type |-> "MUTT_MAILDIR"]

\* The letters after ":2," in a name; p is what strstr(d_name, ":2,") gave.
FlagsAfter(d_name, p) == IF p = 0 THEN << >> ELSE StrFrom(d_name, p + 3)

\* The readdir() loop of maildir_check_dir() (lines 4600-4637) for the
\* entries de.  seen: the files whose st_ctime is not later than
\* m->last_visited.
RECURSIVE check_dir_loop(_, _, _, _, _, _)
check_dir_loop(ms, de, check_new, check_stats, c_mail_check_recent, seen) ==
  IF de = << >> THEN ms
  ELSE LET d_name == NameOf(Head(de).path)
           fl == FlagsAfter(d_name, StrStr(d_name, MARK))
           m1 == IF check_stats
                   THEN [ms EXCEPT !.msg_count = @ + 1,
                                   !.msg_flagged = IF StrChr(fl, "F") > 0 THEN @ + 1 ELSE @]
                   ELSE ms
           m2 == IF check_stats THEN [m1 EXCEPT !.msg_unread = @ + 1] ELSE m1
           m3 == [m2 EXCEPT !.has_new = TRUE, !.msg_new = @ + 1]
       IN IF Head(d_name) = "." \/ StrChr(fl, "T") > 0
            THEN check_dir_loop(ms, Tail(de), check_new, check_stats, c_mail_check_recent, seen)
          ELSE IF StrChr(fl, "S") > 0
            THEN check_dir_loop(m1, Tail(de), check_new, check_stats, c_mail_check_recent, seen)
          ELSE IF ~check_new \/ (c_mail_check_recent /\ Head(de).path \in seen)
            THEN check_dir_loop(m2, Tail(de), check_new, check_stats, c_mail_check_recent, seen)
          ELSE IF ~check_stats THEN m3
          ELSE check_dir_loop(m3, Tail(de), FALSE, check_stats, c_mail_check_recent, seen)

\* maildir_check_dir(): the mailbox counters after the call, and whether
\* the directory was read.  With $mail_check_recent a directory that was
\* not modified since the user left the mailbox is not searched for new
\* mail.
maildir_check_dir(ms, fs, dmt, dir_name, check_new, check_stats, c_mail_check_recent, seen, opendir_fails) ==
  LET cn == IF check_new /\ c_mail_check_recent /\ dmt[dir_name] < ms.last_visited
              THEN FALSE ELSE check_new
  IN IF ~(cn \/ check_stats) THEN [m |-> ms, read |-> FALSE]
     ELSE IF opendir_fails THEN [m |-> [ms EXCEPT !.type = "MUTT_UNKNOWN"], read |-> FALSE]
     ELSE [m |-> check_dir_loop(ms, ReadDirSeq(DirEntries(fs, SubdirName(dir_name))),
                                cn, check_stats, c_mail_check_recent, seen),
           read |-> TRUE]

\* The counters after the first lines of maildir_mbox_check_stats().
stats_reset(ms, check_stats) ==
  IF check_stats
    THEN [ms EXCEPT !.msg_count = 0, !.msg_unread = 0, !.msg_flagged = 0, !.msg_new = 0]
    ELSE ms

\* The second half of maildir_mbox_check_stats(): r1 is what
\* maildir_check_dir() made of new/.
stats_cur(r1, fs, dmt, check_stats, o, seen, fault) ==
  IF (~r1.m.has_new /\ o.maildir_check_cur) \/ check_stats
    THEN [new |-> r1,
          cur |-> maildir_check_dir(r1.m, fs, dmt, "cur",
                                    ~r1.m.has_new /\ o.maildir_check_cur, check_stats,
                                    o.mail_check_recent, seen, fault = "cur"),
          cur_called |-> TRUE, cur_check_new |-> ~r1.m.has_new /\ o.maildir_check_cur]
    ELSE [new |-> r1, cur |-> [m |-> r1.m, read |-> FALSE], cur_called |-> FALSE,
          cur_check_new |-> FALSE]

\* maildir_mbox_check_stats(): o holds $mail_check_recent and
\* $maildir_check_cur; fault names the subdirectory whose opendir() fails.
\* The result holds what the two calls of maildir_check_dir() returned.
maildir_mbox_check_stats(ms, fs, dmt, check_stats, o, seen, fault) ==
  stats_cur(maildir_check_dir(stats_reset(ms, check_stats), fs, dmt, "new", TRUE,
                              check_stats, o.mail_check_recent, seen, fault = "new"),
            fs, dmt, check_stats, o, seen, fault)

\* ------------------------------------------------------------------------
\* The notmuch database handle of an account (notmuch/db.c, found in this
\* tree in src/unnamed/part_001)
\* ------------------------------------------------------------------------

\* struct NmAccountData after nm_adata_new(): db is << >> for NULL and
\* <<h>> for an open database h.
nm_adata_new == [db |-> << >>, longrun |-> FALSE, trans |-> FALSE]

\* nm_db_do_open(): the open database, or NULL when it cannot be opened.
nm_db_do_open(writable, open_fails) ==
  IF open_fails THEN << >> ELSE <<[writable |-> writable]>>

\* nm_db_get(): an open database is used again; adata->db is returned.
nm_db_get(ad, writable, open_fails) ==
  IF ad.db # << >> THEN ad ELSE [ad EXCEPT !.db = nm_db_do_open(writable, open_fails)]

\* nm_db_is_longrun()
nm_db_is_longrun(ad) == ad.longrun

\* nm_db_release(): rc and the account data.
nm_db_release(ad) ==
  IF ad.db = << >> \/ nm_db_is_longrun(ad) THEN [rc |-> -1, adata |-> ad]
  ELSE [rc |-> 0, adata |-> [ad EXCEPT !.db = << >>, !.longrun = FALSE]]

\* nm_db_trans_begin(); atomic_fails: notmuch_database_begin_atomic() fails.
nm_db_trans_begin(ad, atomic_fails) ==
  IF ad.db = << >> THEN [rc |-> -1, adata |-> ad]
  ELSE IF ad.trans THEN [rc |-> 0, adata |-> ad]
  ELSE IF atomic_fails THEN [rc |-> -1, adata |-> ad]
  ELSE [rc |-> 1, adata |-> [ad EXCEPT !.trans = TRUE]]

\* nm_db_trans_end(); atomic_fails: notmuch_database_end_atomic() fails.
nm_db_trans_end(ad, atomic_fails) ==
  IF ad.db = << >> THEN [rc |-> -1, adata |-> ad]
  ELSE IF ~ad.trans THEN [rc |-> 0, adata |-> ad]
  ELSE [rc |-> IF atomic_fails THEN -1 ELSE 0, adata |-> [ad EXCEPT !.trans = FALSE]]

\* What nm_db_longrun_init() does with the result of nm_db_get().
longrun_init_got(got) == IF got.db = << >> THEN got ELSE [got EXCEPT !.longrun = TRUE]

\* nm_db_longrun_init()
nm_db_longrun_init(ad, writable, open_fails) ==
  longrun_init_got(nm_db_get(ad, writable, open_fails))

\* What nm_db_longrun_done() does with the result of nm_db_release().
longrun_done_released(r) == IF r.rc = 0 THEN r.adata ELSE [r.adata EXCEPT !.longrun = TRUE]

\* nm_db_longrun_done()
nm_db_longrun_done(ad) == longrun_done_released(nm_db_release([ad EXCEPT !.longrun = FALSE]))

\* nm_db_debug_check()
nm_db_debug_check(ad) == IF ad.db = << >> THEN ad ELSE nm_db_release(ad).adata

\* ------------------------------------------------------------------------
\* Reconciliation: maildir_mbox_check()
\* ------------------------------------------------------------------------

\* What can go wrong with the system calls of one pass: nothing, stat() of a
\* subdirectory fails, opendir() of a subdirectory fails, or SigInt is raised
\* after k entries of a subdirectory were read.
NoFault == [kind |-> "none", dir |-> "new", k |-> 0]
CheckFaults ==
  {NoFault}
    \cup {[kind |-> kd, dir |-> d, k |-> 0] : kd \in {"stat", "opendir"}, d \in {"new", "cur"}}
    \cup {[kind |-> "sigint", dir |-> "cur", k |-> 1]}

\* Only stat() goes wrong.
StatFaults == {f \in CheckFaults : f.kind \in {"none", "stat"} /\ f.dir = "new"}

\* mutt_hash_insert() of every scanned entry under its canonical name
\* (MUTT_HASH_NO_FLAGS: a key that is already present is not inserted again).
hash_fill(mda) ==
  [k \in 1..Len(mda) |->
     [mda[k] EXCEPT !.canon_fname = maildir_canon_filename(mda[k].email[1].path)]]

\* mutt_hash_find(): index in mda of the entry stored under key, 0 if none.
mutt_hash_find(mda, key) ==
  IF \E k \in 1..Len(mda) : mda[k].canon_fname = key
    THEN CHOOSE k \in 1..Len(mda) :
           /\ mda[k].canon_fname = key
           /\ \A j \in 1..(k - 1) : mda[j].canon_fname # key
    ELSE 0

\* A variant that marks the email deleted but not purge.
mark_vanished_nopurge(e) == [e EXCEPT !.deleted = TRUE]

\* "This message disappeared": the assignments to e->deleted and e->purge.
mark_vanished(e) == [e EXCEPT !.deleted = TRUE, !.purge = TRUE]

\* A variant that takes the flags of the file also for an email that the
\* user has changed.
check_email_overwrite(st, i, changed) ==
  LET e  == [st.emails[i] EXCEPT !.active = FALSE]
      k  == mutt_hash_find(st.mda, maildir_canon_filename(e.path))
  IN IF k > 0 /\ st.mda[k].email # << >>
       THEN LET n  == st.mda[k].email[1]
                u  == maildir_update_flags([e EXCEPT !.active = TRUE, !.path = n.path], n)
            IN [st EXCEPT !.emails[i] = [u.email EXCEPT !.trash = n.trash],
                          !.mda[k].email = << >>,
                          !.flags_changed = st.flags_changed \/ u.header_changed]
     ELSE IF \/ ("new" \in changed /\ StrLeft(e.path, 4) = PathJoin(NEW_DIR, << >>))
             \/ ("cur" \in changed /\ StrLeft(e.path, 4) = PathJoin(CUR_DIR, << >>))
       THEN [st EXCEPT !.emails[i] = mark_vanished(e), !.occult = TRUE]
     ELSE [st EXCEPT !.emails[i] = [e EXCEPT !.active = TRUE]]

\* A variant that takes every email without a file in the scan for
\* vanished, whatever subdirectories were scanned.
check_email_occult(st, i, changed) ==
  LET e  == [st.emails[i] EXCEPT !.active = FALSE]
      k  == mutt_hash_find(st.mda, maildir_canon_filename(e.path))
  IN IF k > 0 /\ st.mda[k].email # << >>
       THEN LET n  == st.mda[k].email[1]
                u  == IF ~e.changed
                        THEN maildir_update_flags([e EXCEPT !.active = TRUE, !.path = n.path], n)
                        ELSE [email |-> [e EXCEPT !.active = TRUE, !.path = n.path],
                              header_changed |-> FALSE]
            IN [st EXCEPT !.emails[i] = [u.email EXCEPT !.trash = n.trash],
                          !.mda[k].email = << >>,
                          !.flags_changed = st.flags_changed \/ u.header_changed]
     ELSE [st EXCEPT !.emails[i] = mark_vanished(e), !.occult = TRUE]

\* A variant that keeps the stored path of a record whose candidate has
\* another path.
check_email_keep_path(st, i, changed) ==
  LET e  == [st.emails[i] EXCEPT !.active = FALSE]
      k  == mutt_hash_find(st.mda, maildir_canon_filename(e.path))
  IN IF k > 0 /\ st.mda[k].email # << >>
       THEN LET n  == st.mda[k].email[1]
                e1 == [e EXCEPT !.active = TRUE]
                u  == IF ~e1.changed THEN maildir_update_flags(e1, n)
                      ELSE [email |-> e1, header_changed |-> FALSE]
                e2 == u.email
                promote == e2.deleted = e2.trash /\ e2.deleted # n.deleted
                e3 == [e2 EXCEPT !.deleted = IF promote THEN n.deleted ELSE e2.deleted,
                                 !.trash = n.trash]
            IN [st EXCEPT !.emails[i] = e3,
                          !.mda[k].email = << >>,
                          !.flags_changed = st.flags_changed \/ u.header_changed \/ promote]
     ELSE IF \/ ("new" \in changed /\ StrLeft(e.path, 4) = PathJoin(NEW_DIR, << >>))
             \/ ("cur" \in changed /\ StrLeft(e.path, 4) = PathJoin(CUR_DIR, << >>))
       THEN [st EXCEPT !.emails[i] = mark_vanished(e), !.occult = TRUE]
     ELSE [st EXCEPT !.emails[i] = [e EXCEPT !.active = TRUE]]

\* A variant that leaves e->trash alone.
check_email_keep_trash(st, i, changed) ==
  LET e  == [st.emails[i] EXCEPT !.active = FALSE]
      k  == mutt_hash_find(st.mda, maildir_canon_filename(e.path))
  IN IF k > 0 /\ st.mda[k].email # << >>
       THEN LET n  == st.mda[k].email[1]
                e1 == [e EXCEPT !.active = TRUE,
                                !.path = IF e.path # n.path THEN n.path ELSE e.path]
                u  == IF ~e1.changed THEN maildir_update_flags(e1, n)
                      ELSE [email |-> e1, header_changed |-> FALSE]
                e2 == u.email
                promote == e2.deleted = e2.trash /\ e2.deleted # n.deleted
                e3 == [e2 EXCEPT !.deleted = IF promote THEN n.deleted ELSE e2.deleted]
            IN [st EXCEPT !.emails[i] = e3,
                          !.mda[k].email = << >>,
                          !.flags_changed = st.flags_changed \/ u.header_changed \/ promote]
     ELSE IF \/ ("new" \in changed /\ StrLeft(e.path, 4) = PathJoin(NEW_DIR, << >>))
             \/ ("cur" \in changed /\ StrLeft(e.path, 4) = PathJoin(CUR_DIR, << >>))
       THEN [st EXCEPT !.emails[i] = mark_vanished(e), !.occult = TRUE]
     ELSE [st EXCEPT !.emails[i] = [e EXCEPT !.active = TRUE]]

\* One iteration of the loop over m->emails (lines 5735-5793): st holds the
\* emails, the scanned entries and the flags occult and flags_changed.
check_email(st, i, changed) ==
  LET e  == [st.emails[i] EXCEPT !.active = FALSE]
      k  == mutt_hash_find(st.mda, maildir_canon_filename(e.path))
  IN IF k > 0 /\ st.mda[k].email # << >>
       THEN LET n  == st.mda[k].email[1]
                e1 == [e EXCEPT !.active = TRUE,
                                !.path = IF e.path # n.path THEN n.path ELSE e.path]
                u  == IF ~e1.changed THEN maildir_update_flags(e1, n)
                      ELSE [email |-> e1, header_changed |-> FALSE]
                e2 == u.email
                promote == e2.deleted = e2.trash /\ e2.deleted # n.deleted
                e3 == [e2 EXCEPT !.deleted = IF promote THEN n.deleted ELSE e2.deleted,
                                 !.trash = n.trash]
            IN [st EXCEPT !.emails[i] = e3,
                          !.mda[k].email = << >>,
                          !.flags_changed = st.flags_changed \/ u.header_changed \/ promote]
     ELSE IF \/ ("new" \in changed /\ StrLeft(e.path, 4) = PathJoin(NEW_DIR, << >>))
             \/ ("cur" \in changed /\ StrLeft(e.path, 4) = PathJoin(CUR_DIR, << >>))
       THEN [st EXCEPT !.emails[i] = mark_vanished(e), !.occult = TRUE]
     ELSE [st EXCEPT !.emails[i] = [e EXCEPT !.active = TRUE]]

RECURSIVE check_emails(_, _, _)
check_emails(st, i, changed) ==
  IF i > Len(st.emails) THEN st ELSE check_emails(check_email(st, i, changed), i + 1, changed)

\* A variant that looks at the new messages before the vanished ones.
check_status_new_first(occult, num_new, flags_changed) ==
  IF num_new > 0 THEN MX_STATUS_NEW_MAIL
  ELSE IF occult THEN MX_STATUS_REOPENED
  ELSE IF flags_changed THEN MX_STATUS_FLAGS
  ELSE MX_STATUS_OK

\* The status returned at the end of maildir_mbox_check() (lines 5816-5822).
check_status(occult, num_new, flags_changed) ==
  IF occult THEN MX_STATUS_REOPENED
  ELSE IF num_new > 0 THEN MX_STATUS_NEW_MAIL
  ELSE IF flags_changed THEN MX_STATUS_FLAGS
  ELSE MX_STATUS_OK

\* The subdirectories whose st_mtime is later than the recorded one.
changed_dirs(dmt, mmt) ==
  (IF dmt["new"] > mmt["new"] THEN MMC_NEW_DIR ELSE MMC_NO_DIRS)
    \cup (IF dmt["cur"] > mmt["cur"] THEN MMC_CUR_DIR ELSE MMC_NO_DIRS)

\* The fast scan of the changed subdirectories (lines 5713-5717); the
\* return value of maildir_parse_dir() is not looked at.
check_scan(fs, changed, c, fault) ==
  LET sig(d) == IF fault.kind = "sigint" /\ fault.dir = d THEN fault.k ELSE -1
      opn(d) == fault.kind = "opendir" /\ fault.dir = d
      m1 == IF "new" \in changed
              THEN maildir_parse_dir(fs, << >>, NEW_DIR, c.mark_old, c.flag_safe,
                                     opn("new"), sig("new")).mda
              ELSE << >>
  IN IF "cur" \in changed
       THEN maildir_parse_dir(fs, m1, CUR_DIR, c.mark_old, c.flag_safe,
                              opn("cur"), sig("cur")).mda
       ELSE m1

\* maildir_mbox_check(): the status, the emails and the recorded mtimes
\* after the call, and what the pass scanned.  (Built without USE_INOTIFY.)
maildir_mbox_check(es, fs, dmt, mmt, c, fault) ==
  LET changed == changed_dirs(dmt, mmt)
      quiet(rc) == [rc |-> rc, emails |-> es, m_mtime |-> mmt, changed |-> MMC_NO_DIRS,
                    scan |-> << >>]
  IN IF ~c.check_new THEN quiet(MX_STATUS_OK)
     ELSE IF fault.kind = "stat" THEN quiet(MX_STATUS_ERROR)
     ELSE IF changed = MMC_NO_DIRS THEN quiet(MX_STATUS_OK)
     ELSE LET mda == hash_fill(check_scan(fs, changed, c, fault))
              st  == check_emails([emails |-> es, mda |-> mda, occult |-> FALSE,
                                   flags_changed |-> FALSE], 1, changed)
              es2 == maildir_move_to_mailbox(st.emails,
                                             maildir_delayed_parsing(fs, st.mda, c.flag_safe))
          IN [rc |-> check_status(st.occult, Len(es2) - Len(es), st.flags_changed),
              emails |-> es2, m_mtime |-> dmt, changed |-> changed, scan |-> mda]

\* No maildir_mbox_check() is between its two listings.
NoScan == [changed |-> MMC_NO_DIRS, mda |-> << >>]

\* maildir_mbox_check() up to and including the listing of new/ (lines
\* 5660-5714) of a pass that finds both subdirectories changed: the
\* st_mtime of both was read and recorded, new/ was listed.
check_scan_new(fs, c) ==
  [changed |-> MMC_NEW_DIR \cup MMC_CUR_DIR,
   mda     |-> maildir_parse_dir(fs, << >>, NEW_DIR, c.mark_old, c.flag_safe, FALSE, -1).mda]

\* The rest of that pass (lines 5715-5822): cur/ is listed as it is now
\* and added to what was read from new/, then the hash, the loop over the
\* emails, the delayed parsing and the move are as in one whole pass.
check_finish(es, fs, mmt, c, sc) ==
  LET mda == hash_fill(maildir_parse_dir(fs, sc.mda, CUR_DIR, c.mark_old, c.flag_safe,
                                         FALSE, -1).mda)
      st  == check_emails([emails |-> es, mda |-> mda, occult |-> FALSE,
                           flags_changed |-> FALSE], 1, sc.changed)
      es2 == maildir_move_to_mailbox(st.emails,
                                     maildir_delayed_parsing(fs, st.mda, c.flag_safe))
  IN [rc |-> check_status(st.occult, Len(es2) - Len(es), st.flags_changed),
      emails |-> es2, m_mtime |-> mmt, changed |-> sc.changed, scan |-> mda]

\* ------------------------------------------------------------------------
\* Opening the mailbox: maildir_mbox_open()
\* ------------------------------------------------------------------------

\* maildir_read_dir(): scan, load and take over one subdirectory.
maildir_read_dir(es, fs, subdir, c) ==
  maildir_move_to_mailbox(es,
    maildir_delayed_parsing(fs,
      maildir_parse_dir(fs, << >>, subdir, c.mark_old, c.flag_safe, FALSE, -1).mda,
      c.flag_safe))

\* maildir_mbox_open(): new/ is read before cur/.
maildir_mbox_open(fs, c) == maildir_read_dir(maildir_read_dir(<< >>, fs, NEW_DIR, c), fs, CUR_DIR, c)

\* ------------------------------------------------------------------------
\* Writing a new message: maildir_msg_open_new(), maildir_commit_message()
\* ------------------------------------------------------------------------

\* The inode a new file gets.
FreshIno(fs) == CHOOSE n \in 1..(Cardinality(fs) + 1) : \A f \in fs : f.ino # n

\* struct Message before maildir_msg_open_new(): path is << >> for NULL, fp
\* tells whether the stream is open, e is the email handed to
\* maildir_msg_open_new() (<< >> for NULL).  tries and flush_failed remember
\* what maildir_commit_message() did, fault whether a system call failed
\* for a reason of its own (history, for the properties).
message_new ==
  [pc |-> "start", e |-> << >>, path |-> << >>, fp |-> FALSE, committed_path |-> << >>,
   received |-> FALSE, rc |-> 0, tries |-> << >>, flush_failed |-> FALSE,
   fault |-> FALSE]

\* The values of mutt_rand64(); time and host name are the same for all.
Rand == {<<"a">>, <<"x">>, <<"y">>}

\* A variant that opens the file without O_EXCL: an existing file is
\* truncated and written by the new owner.
posix_open_trunc(fs, path, w) ==
  [fd |-> 3, errno |-> "",
   fs |-> {g \in fs : g.path # path}
            \cup {File(path, IF Exists(fs, path) THEN FileAt(fs, path).ino ELSE FreshIno(fs),
                        0, TRUE, w, FALSE)}]

\* open(path, O_WRONLY | O_EXCL | O_CREAT, 0666) by process w.
posix_open_excl(fs, path, w) ==
  IF Exists(fs, path) THEN [fd |-> -1, errno |-> "EEXIST", fs |-> fs]
  ELSE [fd |-> 3, errno |-> "", fs |-> fs \cup {File(path, FreshIno(fs), 0, TRUE, w, FALSE)}]

\* One iteration of the loop of maildir_msg_open_new() and, when open()
\* succeeded, the rest of the function.  r is the random number; open_err:
\* open() fails with an errno other than EEXIST; fdopen_err: fdopen() fails.
maildir_msg_open_new(fs, msg, w, r, open_err, fdopen_err) ==
  LET tmp == IF msg.e # << >>
               THEN [msg.e[1] EXCEPT !.deleted = FALSE, !.maildir_flags = << >>]
               ELSE email_new
      suffix == IF msg.e # << >> THEN maildir_gen_flags(tmp) ELSE << >>
      subdir == IF msg.e # << >> /\ (msg.e[1].read \/ msg.e[1].old) THEN CUR_DIR ELSE NEW_DIR
      path == PathJoin(TMP_DIR, subdir \o <<".">> \o r \o suffix)
      o == IF open_err THEN [fd |-> -1, errno |-> "EACCES", fs |-> fs]
           ELSE posix_open_excl(fs, path, w)
  IN IF o.fd = -1 /\ o.errno # "EEXIST"
       THEN [fs |-> fs, msg |-> [msg EXCEPT !.pc = "failed", !.rc = -1, !.fault = TRUE]]
     ELSE IF o.fd = -1
       THEN [fs |-> fs, msg |-> msg]
     ELSE IF fdopen_err
       THEN [fs |-> posix_unlink(o.fs, path),
             msg |-> [msg EXCEPT !.pc = "failed", !.rc = -1, !.fault = TRUE]]
     ELSE [fs |-> o.fs, msg |-> [msg EXCEPT !.pc = "open", !.path = path, !.fp = TRUE]]

\* mutt_file_fsync_close(): fsync() and fclose(); the stream is closed in
\* either case, the data is on disk only when it succeeds.
mutt_file_fsync_close(fs, path, fails) ==
  IF fails \/ ~Exists(fs, path) THEN [rc |-> -1, fs |-> fs]
  ELSE [rc |-> 0, fs |-> (fs \ {FileAt(fs, path)})
                           \cup {[FileAt(fs, path) EXCEPT !.durable = TRUE]}]

\* mutt_file_safe_rename(): link() and unlink(); never replaces target.
mutt_file_safe_rename(fs, src, target, fails) ==
  IF fails THEN [rc |-> -1, errno |-> "EIO", fs |-> fs]
  ELSE IF ~Exists(fs, src) THEN [rc |-> -1, errno |-> "ENOENT", fs |-> fs]
  ELSE IF Exists(fs, target) THEN [rc |-> -1, errno |-> "EEXIST", fs |-> fs]
  ELSE [rc |-> 0, errno |-> "", fs |-> posix_rename(fs, src, target).fs]

\* A variant that goes on to the renaming when the flush has failed.
commit_message_flush_ignored(fs, msg, flush_fails) ==
  LET r == mutt_file_fsync_close(fs, msg.path, flush_fails)
  IN [fs |-> r.fs,
      msg |-> [msg EXCEPT !.fp = FALSE, !.pc = "rename", !.flush_failed = r.rc # 0]]

\* maildir_commit_message() up to its loop (lines 4723-4727).
commit_message_flush(fs, msg, flush_fails) ==
  LET r == mutt_file_fsync_close(fs, msg.path, flush_fails)
  IN IF r.rc # 0
       THEN [fs |-> r.fs,
             msg |-> [msg EXCEPT !.fp = FALSE, !.pc = "failed", !.rc = -1,
                                 !.flush_failed = TRUE, !.fault = flush_fails]]
       ELSE [fs |-> r.fs, msg |-> [msg EXCEPT !.fp = FALSE, !.pc = "rename"]]

\* The attempts of a commit with one more; when MaxTries are remembered
\* the last one is overwritten.
Note(tries, t) ==
  IF Len(tries) < MaxTries THEN Append(tries, t) ELSE [tries EXCEPT ![MaxTries] = t]

\* What is remembered of one attempt: the path tried, whether it existed,
\* whether rename failed for a reason of its own, and the outcome.
Try(path, exists, fault, res) == [path |-> path, exists |-> exists, fault |-> fault, res |-> res]

\* The new file name that maildir_commit_message() constructs from
\* msg->path and the random number r (lines 4729-4746): subdir and suffix
\* are taken from the name of the file in tmp/.
commit_message_path(msg_path, r) ==
  LET s == NameOf(msg_path)
      subdir == StrLeft(s, 3)
      c == StrChr(s, ":")
      suffix == IF c > 0 THEN StrFrom(s, c) ELSE << >>
  IN PathJoin(subdir, r \o suffix)

\* A variant that gives up when the new name exists.
commit_message_rename_once(fs, msg, path, rename_err, utime_err) ==
  LET mv == mutt_file_safe_rename(fs, msg.path, path, rename_err)
      t(res) == Note(msg.tries, Try(path, Exists(fs, path), rename_err, res))
  IN IF mv.rc = 0
       THEN [fs |-> mv.fs,
             msg |-> [msg EXCEPT !.committed_path = path, !.path = << >>, !.pc = "done",
                                 !.tries = t("OK")]]
       ELSE [fs |-> fs,
             msg |-> [msg EXCEPT !.pc = "failed", !.rc = -1,
                                 !.tries = t(IF mv.errno = "EEXIST" THEN "EEXIST" ELSE "ERR")]]

\* One iteration of the loop of maildir_commit_message() (lines 4750-4795)
\* with the new name path, called with e = NULL as maildir_msg_commit()
\* does.  rename_err: the rename fails with an errno other than EEXIST;
\* utime_err: utime() fails.
commit_message_rename(fs, msg, path, rename_err, utime_err) ==
  LET mv == mutt_file_safe_rename(fs, msg.path, path, rename_err)
      t(res) == Note(msg.tries, Try(path, Exists(fs, path), rename_err, res))
  IN IF mv.rc = 0
       THEN IF msg.received /\ utime_err
              THEN [fs |-> mv.fs,
                    msg |-> [msg EXCEPT !.pc = "failed", !.rc = -1, !.tries = t("OK"),
                                        !.fault = TRUE]]
              ELSE [fs |-> mv.fs,
                    msg |-> [msg EXCEPT !.committed_path = path, !.path = << >>,
                                        !.pc = "done", !.tries = t("OK")]]
     ELSE IF mv.errno # "EEXIST"
       THEN [fs |-> fs, msg |-> [msg EXCEPT !.pc = "failed", !.rc = -1, !.tries = t("ERR"),
                                          !.fault = rename_err]]
     ELSE [fs |-> fs, msg |-> [msg EXCEPT !.tries = t("EEXIST")]]

\* ------------------------------------------------------------------------
\* Opening a message and writing it anew: maildir_msg_open(),
\* maildir_open_find_message(), maildir_rewrite_message()
\* ------------------------------------------------------------------------

\* maildir_open_find_message_dir(): the first entry of the subdirectory,
\* in readdir() order, whose canonical name is unique, is opened.
maildir_open_find_message_dir(fs, unique, subfolder) ==
  LET des  == ReadDirSeq(DirEntries(fs, subfolder))
      same == {k \in 1..Len(des) : maildir_canon_filename(NameOf(des[k].path)) = unique}
  IN IF same = {} THEN [fp |-> FALSE, errno |-> "ENOENT", fname |-> << >>]
     ELSE LET f == des[CHOOSE k \in same : \A h \in same : k <= h]
          IN IF f.perm THEN [fp |-> TRUE, errno |-> "", fname |-> f.path]
             ELSE [fp |-> FALSE, errno |-> "EACCES", fname |-> << >>]

\* The value at which the counters stop counting. In C it is 2^32 - 1; the
\* integers of the model end at 2^31 - 1, and no behaviour of MaxOpens
\* calls brings a counter near either value.
UINT_MAX == 2147483647

\* new_hits and cur_hits when the program starts.
NoHits == [new |-> 0, cur |-> 0]

\* The two statements that count a hit of the subdirectory searched first
\* (lines 5489-5493): the second reads the new_hits the first has written.
count_first(h) ==
  IF h.new < UINT_MAX /\ h.cur < UINT_MAX
    THEN LET n == h.new + (IF h.new > h.cur THEN 1 ELSE 0)
         IN [new |-> n, cur |-> h.cur + (IF n > h.cur THEN 0 ELSE 1)]
    ELSE h

\* The same after a hit of the subdirectory searched second (lines
\* 5501-5505).
count_second(h) ==
  IF h.new < UINT_MAX /\ h.cur < UINT_MAX
    THEN LET n == h.new + (IF h.new > h.cur THEN 0 ELSE 1)
         IN [new |-> n, cur |-> h.cur + (IF n > h.cur THEN 1 ELSE 0)]
    ELSE h

\* What maildir_open_find_message() gives back when it has searched the
\* subdirectory first and then, after ENOENT, the other one: r1 and r2 are
\* the results of maildir_open_find_message_dir(), h the counters.
find_message_result(r1, r2, first, h) ==
  IF r1.fp \/ r1.errno # "ENOENT"
    THEN [fp |-> r1.fp, errno |-> r1.errno, fname |-> r1.fname, first |-> first,
          probes |-> 1, hits |-> count_first(h)]
  ELSE IF r2.fp \/ r2.errno # "ENOENT"
    THEN [fp |-> r2.fp, errno |-> r2.errno, fname |-> r2.fname, first |-> first,
          probes |-> 2, hits |-> count_second(h)]
  ELSE [fp |-> FALSE, errno |-> "ENOENT", fname |-> << >>, first |-> first,
        probes |-> 2, hits |-> h]

\* maildir_open_find_message(): h holds the static counters new_hits and
\* cur_hits, which choose the subdirectory that is searched first.
maildir_open_find_message(fs, msg, h) ==
  find_message_result(
    maildir_open_find_message_dir(fs, maildir_canon_filename(msg),
                                  IF h.new > h.cur THEN NEW_DIR ELSE CUR_DIR),
    maildir_open_find_message_dir(fs, maildir_canon_filename(msg),
                                  IF h.new > h.cur THEN CUR_DIR ELSE NEW_DIR),
    IF h.new > h.cur THEN "new" ELSE "cur", h)

\* maildir_msg_open(): fopen() of the stored path and, when it is gone,
\* the search for the message under its canonical name.
maildir_msg_open(fs, e, h) ==
  IF Exists(fs, e.path)
    THEN IF FileAt(fs, e.path).perm
           THEN [fp |-> TRUE, errno |-> "", fname |-> e.path, first |-> "", probes |-> 0,
                 hits |-> h]
           ELSE [fp |-> FALSE, errno |-> "EACCES", fname |-> << >>, first |-> "",
                 probes |-> 0, hits |-> h]
    ELSE maildir_open_find_message(fs, e.path, h)

\* What maildir_rewrite_message() is given besides the mailbox: the random
\* numbers of the name in tmp/ and of the final name, and the counters of
\* maildir_open_find_message().
NoRewrite == [r1 |-> <<"x">>, r2 |-> <<"x">>, hits |-> NoHits]

\* The end of maildir_rewrite_message() (lines 4840-4858): cr is what
\* maildir_commit_message() returned, which has stored the new name path
\* in e->path; the old file is removed when the commit succeeded, and
\* closing dest removes the file in tmp/ when it did not.
rewrite_committed(e, tmppath, path, cr) ==
  IF cr.msg.pc = "done"
    THEN [rc |-> 0, fs |-> posix_unlink(cr.fs, e.path), email |-> [e EXCEPT !.path = path]]
    ELSE [rc |-> -1, fs |-> posix_unlink(cr.fs, tmppath), email |-> e]

\* maildir_commit_message(m, dest, e) in maildir_rewrite_message() (line
\* 4839), after its flush fl, with the random number r2.
rewrite_commit(e, fl, tmppath, r2, rename_err) ==
  rewrite_committed(e, tmppath, commit_message_path(tmppath, r2),
                    commit_message_rename(fl.fs, fl.msg, commit_message_path(tmppath, r2),
                                          rename_err, FALSE))

\* mutt_copy_message() in maildir_rewrite_message() (line 4832): the file
\* in tmp/ gets the content of the message.
rewrite_copy(fs, from, tmpf) ==
  (fs \ {tmpf}) \cup {[tmpf EXCEPT !.size = from.size, !.by = from.by]}

\* maildir_rewrite_message() after mx_msg_open() and mx_msg_open_new()
\* (lines 4826-4829): src and dest are what they returned.
rewrite_opened(e, fs, src, dest, r2, rename_err) ==
  IF ~src.fp \/ dest.msg.pc # "open"
    THEN [rc |-> -1, fs |-> dest.fs, email |-> e]
    ELSE rewrite_commit(e,
           commit_message_flush(rewrite_copy(dest.fs, FileAt(fs, src.fname),
                                             FileAt(dest.fs, dest.msg.path)),
                                dest.msg, FALSE),
           dest.msg.path, r2, rename_err)

\* maildir_rewrite_message() for m->emails[i-1]: the message is copied to
\* a new file in tmp/, which maildir_commit_message() moves into the
\* mailbox under a new name that it stores in e->path; the old file is
\* removed.  x.r1 and x.r2 are the random numbers for which the loops of
\* maildir_msg_open_new() and maildir_commit_message() find a free name.
maildir_rewrite_message(es, fs, i, x, rename_err) ==
  rewrite_opened(es[i], fs, maildir_msg_open(fs, es[i], x.hits),
                 maildir_msg_open_new(fs, [message_new EXCEPT !.e = <<es[i]>>], 0, x.r1,
                                      FALSE, FALSE),
                 x.r2, rename_err)

\* ------------------------------------------------------------------------
\* Writing changes back: maildir_sync_message(), maildir_sync_mailbox_message()
\* ------------------------------------------------------------------------

\* A variant that calls rename() even when the new path is the old one.
maildir_sync_message_always(es, fs, i, x, rename_fails) ==
  LET e == es[i]
      name == NameOf(e.path)
      colon == StrChr(name, ":")
      newpath == IF colon > 0 THEN StrLeft(name, colon - 1) ELSE name
      partpath == PathJoin(IF e.read \/ e.old THEN CUR_DIR ELSE NEW_DIR,
                           newpath \o maildir_gen_flags(e))
      r == IF rename_fails THEN [rc |-> -1, fs |-> fs] ELSE posix_rename(fs, e.path, partpath)
  IN [rc |-> r.rc, fs |-> r.fs,
      email |-> [e EXCEPT !.trash = e.deleted, !.path = IF r.rc = 0 THEN partpath ELSE @],
      partpath |-> partpath, renamed |-> TRUE, rewritten |-> FALSE]

\* What maildir_sync_message() returns after maildir_rewrite_message()
\* returned rw (lines 4885-4892).
sync_rewritten(rw) ==
  [rc |-> rw.rc, fs |-> rw.fs, email |-> rw.email, partpath |-> << >>, renamed |-> FALSE,
   rewritten |-> TRUE]

\* maildir_sync_message() for m->emails[i-1]: the message is written anew
\* when an attachment was deleted (x: what maildir_rewrite_message() is
\* given), otherwise its file is renamed.  rename_fails: the rename fails
\* for a reason of its own (EIO, ...).  The result holds rc, the file
\* system, the email, the computed partpath and whether rename() or
\* maildir_rewrite_message() was called.
maildir_sync_message(es, fs, i, x, rename_fails) ==
  LET e == es[i]
      p == StrRChr(e.path, "/")
      name == StrFrom(e.path, p + 1)
      colon == StrChr(name, ":")
      newpath == IF colon > 0 THEN StrLeft(name, colon - 1) ELSE name
      suffix == maildir_gen_flags(e)
      partpath == PathJoin(IF e.read \/ e.old THEN CUR_DIR ELSE NEW_DIR, newpath \o suffix)
      e1 == [e EXCEPT !.trash = e.deleted]
      r == IF rename_fails THEN [rc |-> -1, fs |-> fs] ELSE posix_rename(fs, e.path, partpath)
      res(rc, fs1, e2, pp, called) ==
        [rc |-> rc, fs |-> fs1, email |-> e2, partpath |-> pp, renamed |-> called,
         rewritten |-> FALSE]
  IN IF e.attach_del
       THEN sync_rewritten(maildir_rewrite_message(es, fs, i, x, rename_fails))
     ELSE IF p = 0 THEN res(-1, fs, e, << >>, FALSE)
     ELSE IF partpath = e.path THEN res(0, fs, e, partpath, FALSE)
     ELSE IF r.rc # 0 THEN res(-1, r.fs, e1, partpath, TRUE)
     ELSE res(0, r.fs, [e1 EXCEPT !.path = partpath], partpath, TRUE)

\* What maildir_sync_mailbox_message() makes of the result r of
\* maildir_sync_message() (lines 5455-5456).
sync_mailbox_synced(r) ==
  [ok |-> r.rc # -1, fs |-> r.fs, email |-> r.email, branch |-> "sync",
   partpath |-> r.partpath, renamed |-> r.renamed, rewritten |-> r.rewritten]

\* maildir_sync_mailbox_message() (without header cache): ok is the bool
\* it returns; branch tells which of its three cases was taken.
maildir_sync_mailbox_message(es, fs, i, c, x, rename_fails) ==
  LET e == es[i]
  IN IF e.deleted /\ ~c.maildir_trash
       THEN [ok |-> TRUE, fs |-> posix_unlink(fs, e.path), email |-> e,
             branch |-> "unlink", partpath |-> << >>, renamed |-> FALSE,
             rewritten |-> FALSE]
     ELSE IF e.changed \/ e.attach_del
               \/ ((c.maildir_trash \/ e.trash) /\ e.deleted # e.trash)
       THEN sync_mailbox_synced(maildir_sync_message(es, fs, i, x, rename_fails))
     ELSE [ok |-> TRUE, fs |-> fs, email |-> e, branch |-> "none",
           partpath |-> << >>, renamed |-> FALSE, rewritten |-> FALSE]

\* A variant that records nothing.
maildir_update_mtime_never(dmt) == [d \in {"new", "cur"} |-> 0]

\* maildir_update_mtime(): the recorded times become those of the directories.
maildir_update_mtime(dmt) == dmt

\* The "adjust indices" loop at the end of maildir_mbox_sync().
RECURSIVE adjust_indices(_, _, _, _)
adjust_indices(es, i, j, c_maildir_trash) ==
  IF i > Len(es) THEN es
  ELSE IF ~es[i].deleted \/ c_maildir_trash
    THEN adjust_indices([es EXCEPT ![i].index = j], i + 1, j + 1, c_maildir_trash)
  ELSE adjust_indices(es, i + 1, j, c_maildir_trash)

\* ------------------------------------------------------------------------
\* Initial state: a mailbox that was just opened
\* ------------------------------------------------------------------------

\* Unique names of the messages that other programs deliver.
Bases == {<<"a">>, <<"b">>}
\* The flag suffixes other programs give to their files.
ExtSuffixes == {<< >>, MARK \o <<"S">>, MARK \o <<"F", "T">>}

\* The mailboxes the model starts from.
InitFiles ==
  {{File(PathJoin(NEW_DIR, <<"a">>), 1, 1, TRUE, 0, TRUE)},
   {File(PathJoin(NEW_DIR, <<"a">>), 1, 1, TRUE, 0, TRUE),
    File(PathJoin(CUR_DIR, <<"b">> \o MARK \o <<"S">>), 2, 1, TRUE, 0, TRUE)}}

\* The settings of $flag_safe, $maildir_trash, $mark_old and $check_new.
Configs ==
  {c \in [flag_safe : BOOLEAN, maildir_trash : BOOLEAN, mark_old : BOOLEAN,
          check_new : BOOLEAN] :
     ~c.check_new => ~c.flag_safe /\ ~c.maildir_trash /\ c.mark_old}

NoOp == [op |-> "none"]

\* The processes that write new messages into the mailbox.
Writers == {1, 2}

\* The mailbox after maildir_mbox_open().
InitMailbox ==
  /\ files \in InitFiles
  /\ cfg \in Configs
  /\ now = 1
  /\ dir_mtime = [d \in {"new", "cur"} |-> 1]
  /\ m_mtime = [d \in {"new", "cur"} |-> 0]
  /\ emails = maildir_mbox_open(files, cfg)
  /\ pc = "idle"
  /\ sync_i = 0
  /\ sync_check = MX_STATUS_OK
  /\ last = NoOp
  /\ ext_ops = 0
  /\ app_ops = 0
  /\ hits = NoHits
  /\ mstat = mailbox_new
  /\ adata = nm_adata_new
  /\ check_mda = NoScan

Init ==
  /\ InitMailbox
  /\ msgs = [w \in Writers |-> message_new]

\* ------------------------------------------------------------------------
\* Other programs working on the same mailbox, and the clock
\* ------------------------------------------------------------------------

Mail(fs) == DirEntries(fs, NEW_DIR) \cup DirEntries(fs, CUR_DIR)

Tick ==
  /\ now < MaxTime
  /\ now' = now + 1
  /\ last' = NoOp
  /\ UNCHANGED <<files, dir_mtime, emails, m_mtime, cfg, pc, sync_i, sync_check,
                 ext_ops, app_ops, msgs, hits, mstat, adata, check_mda>>

\* What every step of another program does besides changing the files;
\* budget is the number of such steps the behaviour may have.
ExtStep(budget) ==
  /\ ext_ops < budget
  /\ ext_ops' = ext_ops + 1
  /\ dir_mtime' = Stamp(dir_mtime, files, files', now)
  /\ last' = NoOp
  /\ UNCHANGED <<now, emails, m_mtime, cfg, pc, sync_i, sync_check, app_ops, msgs,
                  hits, mstat, adata, check_mda>>

\* A delivery agent links a message into new/; the file may still be
\* empty, or unreadable for this user.
ExtDeliver(budget, kinds) ==
  \E b \in Bases, kind \in kinds :
    LET path == PathJoin(NEW_DIR, b)
    IN /\ Cardinality(Mail(files)) < MaxFiles
       /\ ~Exists(files, path)
       /\ files' = files \cup {File(path, FreshIno(files), IF kind = "empty" THEN 0 ELSE 1,
                                    kind # "noperm", 0, TRUE)}
       /\ ExtStep(budget)

\* The writer of an empty file adds the message text.
ExtFill(budget) ==
  \E f \in Mail(files) :
    /\ f.size = 0
    /\ files' = (files \ {f}) \cup {[f EXCEPT !.size = 1]}
    /\ ExtStep(budget)

\* Another mail program removes a message.
ExtRemove(budget) ==
  \E f \in Mail(files) :
    /\ files' = posix_unlink(files, f.path)
    /\ ExtStep(budget)

\* Another mail program puts a message into cur/ with new flags; the
\* unique name stays.
ExtRename(budget) ==
  \E f \in Mail(files), x \in ExtSuffixes \ {<< >>} :
    LET path == PathJoin(CUR_DIR, maildir_canon_filename(f.path) \o x)
    IN /\ ~Exists(files, path)
       /\ files' = posix_rename(files, f.path, path).fs
       /\ ExtStep(budget)

\* Another program creates and removes a temporary entry in a subdirectory.
ExtTouch(budget) ==
  \E d \in {"new", "cur"} :
    /\ ext_ops < budget
    /\ ext_ops' = ext_ops + 1
    /\ dir_mtime' = [dir_mtime EXCEPT ![d] = now]
    /\ last' = NoOp
    /\ UNCHANGED <<files, now, emails, m_mtime, cfg, pc, sync_i, sync_check, app_ops, msgs,
                  hits, mstat, adata, check_mda>>

\* ------------------------------------------------------------------------
\* The owning application
\* ------------------------------------------------------------------------

\* mutt_set_flag() for MUTT_FLAG, MUTT_READ and MUTT_DELETE: the flag gets
\* the other value and the email is marked as changed; with $flag_safe a
\* flagged message cannot be marked deleted.
AppSetFlag ==
  \E i \in 1..Len(emails), fl \in {"flagged", "read", "deleted"} :
    /\ pc = "idle"
    /\ app_ops < MaxAppOps
    /\ fl = "deleted" /\ ~emails[i].deleted => ~emails[i].flagged \/ ~cfg.flag_safe
    /\ emails' = [emails EXCEPT ![i] =
                    CASE fl = "flagged" -> [@ EXCEPT !.flagged = ~@, !.changed = TRUE]
                      [] fl = "read"    -> [@ EXCEPT !.read = ~@, !.changed = TRUE]
                      [] fl = "deleted" -> [@ EXCEPT !.deleted = ~@, !.changed = TRUE]]
    /\ app_ops' = app_ops + 1
    /\ last' = NoOp
    /\ UNCHANGED <<files, now, dir_mtime, m_mtime, cfg, pc, sync_i, sync_check, ext_ops, msgs,
                  hits, mstat, adata, check_mda>>

\* The user deletes an attachment of a message: the email is marked so
\* that the next sync writes the message anew.
AppDeleteAttachment ==
  \E i \in 1..Len(emails) :
    /\ pc = "idle"
    /\ app_ops < MaxAppOps
    /\ ~emails[i].attach_del
    /\ emails' = [emails EXCEPT ![i] = [@ EXCEPT !.attach_del = TRUE, !.changed = TRUE]]
    /\ app_ops' = app_ops + 1
    /\ last' = NoOp
    /\ UNCHANGED <<files, now, dir_mtime, m_mtime, cfg, pc, sync_i, sync_check, ext_ops, msgs,
                  hits, mstat, adata, check_mda>>

\* ------------------------------------------------------------------------
\* The engine
\* ------------------------------------------------------------------------

\* What a pass of maildir_mbox_check() leaves behind for the properties.
\* after_sync: the step before was the end of a maildir_mbox_sync() that
\* succeeded, and whether the sync of its last record renamed a file.
CheckRecord(r, fault, caller) ==
  [op |-> "check", caller |-> caller, rc |-> r.rc, pre |-> emails, changed |-> r.changed,
   scan |-> r.scan, fault |-> fault,
   advanced |-> {d \in {"new", "cur"} : dir_mtime[d] > m_mtime[d]},
   after_sync |-> IF last.op = "sync" THEN <<last.renamed>> ELSE << >>]

\* A call of maildir_mbox_check(), with one of the given faults.
MboxCheck(faults) ==
  \E fault \in faults :
    \E r \in {maildir_mbox_check(emails, files, dir_mtime, m_mtime, cfg, fault)} :
       /\ pc = "idle"
       /\ emails' = r.emails
       /\ m_mtime' = r.m_mtime
       /\ last' = CheckRecord(r, fault, "app")
       /\ UNCHANGED <<files, now, dir_mtime, cfg, pc, sync_i, sync_check, ext_ops, app_ops, msgs,
                  hits, mstat, adata, check_mda>>

\* A variant that goes on to the loop when the check has failed.
MboxSyncBeginRegardless ==
  \E fault \in StatFaults :
    \E r \in {maildir_mbox_check(emails, files, dir_mtime, m_mtime, cfg, fault)} :
       /\ pc = "idle"
       /\ emails' = r.emails
       /\ m_mtime' = r.m_mtime
       /\ pc' = "sync"
       /\ sync_i' = 0
       /\ sync_check' = r.rc
       /\ last' = CheckRecord(r, fault, "sync")
       /\ UNCHANGED <<files, now, dir_mtime, cfg, ext_ops, app_ops, msgs, hits,
                  mstat, adata, check_mda>>

\* maildir_mbox_sync() up to its loop: the check, and the return of
\* MX_STATUS_ERROR when the check failed.
MboxSyncBegin ==
  \E fault \in StatFaults :
    \E r \in {maildir_mbox_check(emails, files, dir_mtime, m_mtime, cfg, fault)} :
       /\ pc = "idle"
       /\ emails' = r.emails
       /\ m_mtime' = r.m_mtime
       /\ pc' = IF r.rc = MX_STATUS_ERROR THEN "idle" ELSE "sync"
       /\ sync_i' = 0
       /\ sync_check' = r.rc
       /\ last' = CheckRecord(r, fault, "sync")
       /\ UNCHANGED <<files, now, dir_mtime, cfg, ext_ops, app_ops, msgs, hits,
                  mstat, adata, check_mda>>

\* The random numbers and the search order that a call of
\* maildir_rewrite_message() for m->emails[i-1] can meet: the loops of
\* maildir_msg_open_new() and maildir_commit_message() go on until the
\* name they made is free.
RewriteInputs(es, fs, i) ==
  IF ~es[i].attach_del THEN {NoRewrite}
  ELSE {x \in [r1 : Rand, r2 : Rand, hits : {hits}] :
          LET dest == maildir_msg_open_new(fs, [message_new EXCEPT !.e = <<es[i]>>], 0, x.r1,
                                           FALSE, FALSE)
          IN /\ dest.msg.pc = "open"
             /\ ~Exists(dest.fs, commit_message_path(dest.msg.path, x.r2))}

\* One iteration of the loop of maildir_mbox_sync(): the call of
\* maildir_sync_mailbox_message(m, i, hc), and the jump to err when it fails.
MboxSyncMessage ==
  \E rename_fails \in BOOLEAN :
   \E x \in IF pc = "sync" /\ sync_i < Len(emails)
              THEN RewriteInputs(emails, files, sync_i + 1) ELSE {NoRewrite} :
    \E r \in {IF pc = "sync" /\ sync_i < Len(emails)
                THEN maildir_sync_mailbox_message(emails, files, sync_i + 1, cfg, x,
                                                  rename_fails)
                ELSE [renamed |-> FALSE, rewritten |-> FALSE]} :
       /\ pc = "sync"
       /\ sync_i < Len(emails)
       /\ rename_fails => r.renamed \/ r.rewritten
       /\ files' = r.fs
       /\ dir_mtime' = Stamp(dir_mtime, files, files', now)
       /\ emails' = [emails EXCEPT ![sync_i + 1] = r.email]
       /\ pc' = IF r.ok THEN "sync" ELSE "idle"
       /\ sync_i' = IF r.ok THEN sync_i + 1 ELSE 0
       /\ last' = [op |-> "sync_message", msgno |-> sync_i, ok |-> r.ok, branch |-> r.branch,
                   pre |-> emails[sync_i + 1], prefiles |-> files, partpath |-> r.partpath,
                   renamed |-> r.renamed, rewritten |-> r.rewritten,
                   rename_fails |-> rename_fails]
       /\ hits' = IF r.rewritten
                    THEN maildir_msg_open(files, emails[sync_i + 1], hits).hits ELSE hits
       /\ hits'.new <= MaxHits /\ hits'.cur <= MaxHits
       /\ UNCHANGED <<now, m_mtime, cfg, sync_check, ext_ops, app_ops, msgs, mstat, adata, check_mda>>

\* m->msg_deleted: the number of emails marked deleted.
msg_deleted(es) == Cardinality({i \in 1..Len(es) : es[i].deleted})

\* The end of maildir_mbox_sync(): maildir_update_mtime(), the new indices
\* and the return of the status of the check.
MboxSyncEnd ==
  /\ pc = "sync"
  /\ sync_i >= Len(emails)
  /\ m_mtime' = maildir_update_mtime(dir_mtime)
  /\ emails' = IF msg_deleted(emails) # 0
                 THEN adjust_indices(emails, 1, 0, cfg.maildir_trash) ELSE emails
  /\ pc' = "idle"
  /\ sync_i' = 0
  /\ last' = [op |-> "sync", rc |-> sync_check,
              renamed |-> last.op = "sync_message" /\ last.renamed]
  /\ UNCHANGED <<files, now, dir_mtime, cfg, sync_check, ext_ops, app_ops, msgs,
                  hits, mstat, adata, check_mda>>

\* The states of a file that is delivered.
FileKinds == {"msg", "empty", "noperm"}

\* The whole system: the application changes flags, checks and syncs while
\* other programs work on the mailbox.
Next ==
  \/ Tick
  \/ ExtDeliver(MaxSyncExtOps, {"msg"})
  \/ ExtRemove(MaxSyncExtOps)
  \/ ExtRename(MaxSyncExtOps)
  \/ ExtTouch(MaxSyncExtOps)
  \/ AppSetFlag
  \/ MboxCheck(StatFaults)
  \/ MboxSyncBegin
  \/ MboxSyncMessage
  \/ MboxSyncEnd

InitSync ==
  /\ Init
  /\ Cardinality(files) = 2
  /\ cfg.check_new
  /\ cfg.mark_old => ~cfg.flag_safe /\ ~cfg.maildir_trash

Spec == InitSync /\ [][Next]_vars

\* The application deletes attachments as well, so that a sync writes the
\* messages anew; other programs rename files.
NextRewrite ==
  \/ Tick
  \/ ExtRename(MaxSyncExtOps)
  \/ AppSetFlag
  \/ AppDeleteAttachment
  \/ MboxSyncBegin
  \/ MboxSyncMessage
  \/ MboxSyncEnd

InitRewrite ==
  /\ Init
  /\ Cardinality(files) = 1
  /\ cfg \in {[flag_safe |-> FALSE, maildir_trash |-> FALSE, mark_old |-> o,
               check_new |-> TRUE] : o \in BOOLEAN}

SpecRewrite == InitRewrite /\ [][NextRewrite]_vars

\* Another mail program renames a message within new/ or cur/ or moves it
\* from one to the other, with new flags; the unique name stays.
ExtMove(budget) ==
  \E f \in Mail(files), d \in {NEW_DIR, CUR_DIR}, x \in ExtSuffixes :
    LET path == PathJoin(d, maildir_canon_filename(f.path) \o x)
    IN /\ ~Exists(files, path)
       /\ files' = posix_rename(files, f.path, path).fs
       /\ ExtStep(budget)

\* The subdirectory in which maildir_msg_open() found the message: "new",
\* "cur", or "" when it opened no file.
FoundIn(r) == IF r.fp THEN SubdirName(DirOf(r.fname)) ELSE ""

\* The application opens message i (mx_msg_open() calls maildir_msg_open()).
\* new_streak counts the calls without a break, up to this one, in which
\* maildir_open_find_message() found the message in new/; fresh tells
\* whether the counters were those of the program start when they began.
MsgOpen ==
  \E i \in 1..Len(emails) :
    \E r \in {maildir_msg_open(files, emails[i], hits)} :
       /\ pc = "idle"
       /\ app_ops < MaxOpens
       /\ app_ops' = app_ops + 1
       /\ hits' = r.hits
       /\ last' = [op |-> "msg_open", msgno |-> i - 1, fp |-> r.fp, first |-> r.first,
                   probes |-> r.probes, found |-> FoundIn(r), before |-> hits,
                   new_streak |-> IF r.probes > 0 /\ FoundIn(r) = "new"
                                    THEN IF last.op = "msg_open" /\ last.new_streak > 0
                                           THEN last.new_streak + 1 ELSE 1
                                    ELSE 0,
                   fresh |-> IF last.op = "msg_open" /\ last.new_streak > 0
                               THEN last.fresh ELSE hits = NoHits]
       /\ UNCHANGED <<files, now, dir_mtime, emails, m_mtime, cfg, pc, sync_i, sync_check,
                      ext_ops, msgs, mstat, adata, check_mda>>

\* The application opens messages while other programs rename them.
NextFind ==
  \/ ExtMove(MaxFindExtOps)
  \/ MsgOpen

InitFind ==
  /\ Init
  /\ cfg = [flag_safe |-> FALSE, maildir_trash |-> FALSE, mark_old |-> FALSE,
            check_new |-> TRUE]

SpecFind == InitFind /\ [][NextFind]_vars

\* ------------------------------------------------------------------------
\* The statistics of a mailbox that is not open: maildir_mbox_check_stats()
\* ------------------------------------------------------------------------

\* Most calls of maildir_mbox_check_stats() in one behaviour.
MaxStatCalls == 2
\* Most changes of other programs between these calls.
MaxStatExtOps == 1

\* The settings of $mail_check_recent and $maildir_check_cur.
StatConfigs == [mail_check_recent : BOOLEAN, maildir_check_cur : BOOLEAN]

\* The user leaves the mailbox: the time is kept in m->last_visited.
MailboxLeave ==
  /\ pc = "idle"
  /\ mstat.last_visited # now
  /\ mstat' = [mstat EXCEPT !.last_visited = now]
  /\ last' = NoOp
  /\ UNCHANGED <<files, now, dir_mtime, emails, m_mtime, cfg, pc, sync_i, sync_check,
                 ext_ops, app_ops, msgs, hits, adata, check_mda>>

\* A call of maildir_mbox_check_stats(m, flags).  seen: the files whose
\* st_ctime is not later than m->last_visited; fault: the subdirectory
\* whose opendir() fails.
MboxCheckStats ==
  \E check_stats \in BOOLEAN, o \in StatConfigs, fault \in {"none", "new", "cur"},
     seen \in SUBSET {f.path : f \in Mail(files)} :
    \E r \in {maildir_mbox_check_stats(mstat, files, dir_mtime, check_stats, o, seen, fault)} :
       /\ pc = "idle"
       /\ app_ops < MaxStatCalls
       /\ app_ops' = app_ops + 1
       /\ ~o.mail_check_recent => seen = {}
       /\ mstat' = r.cur.m
       /\ last' = [op |-> "check_stats", check_stats |-> check_stats, o |-> o,
                   fault |-> fault,
                   before |-> mstat, reset |-> stats_reset(mstat, check_stats), r |-> r,
                   rc |-> IF r.cur.m.msg_new # 0 THEN MX_STATUS_NEW_MAIL ELSE MX_STATUS_OK]
       /\ UNCHANGED <<files, now, dir_mtime, emails, m_mtime, cfg, pc, sync_i, sync_check,
                      ext_ops, msgs, hits, adata, check_mda>>

\* The application asks for the statistics of the mailbox from time to
\* time while other programs deliver and move messages.
NextStats ==
  \/ Tick
  \/ ExtDeliver(MaxStatExtOps, {"msg"})
  \/ ExtRename(MaxStatExtOps)
  \/ MailboxLeave
  \/ MboxCheckStats

InitStats ==
  /\ Init
  /\ Cardinality(files) = 1
  /\ cfg = [flag_safe |-> FALSE, maildir_trash |-> FALSE, mark_old |-> FALSE,
            check_new |-> TRUE]

SpecStats == InitStats /\ [][NextStats]_vars

\* ------------------------------------------------------------------------
\* The callers of the notmuch database functions
\* ------------------------------------------------------------------------

\* Most calls of the nm_db_ functions in one behaviour.
MaxNmCalls == 4

\* What every call of an nm_db_ function does besides changing the
\* account data: rc is what it returned (0 for a void function).
NmCall(op, rc) ==
  /\ pc = "idle"
  /\ app_ops < MaxNmCalls
  /\ app_ops' = app_ops + 1
  /\ last' = [op |-> op, rc |-> rc, before |-> adata]
  /\ UNCHANGED <<files, now, dir_mtime, emails, m_mtime, cfg, pc, sync_i, sync_check,
                 ext_ops, msgs, hits, mstat, check_mda>>

NmDbGet ==
  \E writable \in BOOLEAN, open_fails \in BOOLEAN :
    /\ adata' = nm_db_get(adata, writable, open_fails)
    /\ NmCall("nm_db_get", IF adata'.db = << >> THEN -1 ELSE 0)

NmDbRelease ==
  \E r \in {nm_db_release(adata)} :
    /\ adata' = r.adata
    /\ NmCall("nm_db_release", r.rc)

NmDbTransBegin ==
  \E atomic_fails \in BOOLEAN :
    \E r \in {nm_db_trans_begin(adata, atomic_fails)} :
      /\ adata' = r.adata
      /\ NmCall("nm_db_trans_begin", r.rc)

NmDbTransEnd ==
  \E atomic_fails \in BOOLEAN :
    \E r \in {nm_db_trans_end(adata, atomic_fails)} :
      /\ adata' = r.adata
      /\ NmCall("nm_db_trans_end", r.rc)

NmDbLongrunInit ==
  \E writable \in BOOLEAN, open_fails \in BOOLEAN :
    /\ adata' = nm_db_longrun_init(adata, writable, open_fails)
    /\ NmCall("nm_db_longrun_init", 0)

NmDbLongrunDone ==
  /\ adata' = nm_db_longrun_done(adata)
  /\ NmCall("nm_db_longrun_done", 0)

NmDbDebugCheck ==
  /\ adata' = nm_db_debug_check(adata)
  /\ NmCall("nm_db_debug_check", 0)

\* Any sequence of calls on the database handle of one account.
NextNm ==
  \/ NmDbGet
  \/ NmDbRelease
  \/ NmDbTransBegin
  \/ NmDbTransEnd
  \/ NmDbLongrunInit
  \/ NmDbLongrunDone
  \/ NmDbDebugCheck

InitNm ==
  /\ Init
  /\ Cardinality(files) = 1
  /\ cfg = [flag_safe |-> FALSE, maildir_trash |-> FALSE, mark_old |-> FALSE,
            check_new |-> TRUE]

SpecNm == InitNm /\ [][NextNm]_vars

\* The reconciliation alone: the application only polls the mailbox.
NextCheck ==
  \/ Tick
  \/ ExtDeliver(MaxExtOps, FileKinds)
  \/ ExtFill(MaxExtOps)
  \/ ExtRemove(MaxExtOps)
  \/ ExtRename(MaxExtOps)
  \/ ExtTouch(MaxExtOps)
  \/ MboxCheck(CheckFaults)

InitCheck == Init /\ ~cfg.maildir_trash

SpecCheck == InitCheck /\ [][NextCheck]_vars

\* The reconciliation of a mailbox that held no message, or one message
\* with the flag T, when it was opened.
ScanFiles ==
  {{}, {File(PathJoin(CUR_DIR, <<"a">> \o MARK \o <<"T">>), 1, 1, TRUE, 0, TRUE)}}

InitScan ==
  /\ files \in ScanFiles
  /\ cfg \in Configs
  /\ ~cfg.maildir_trash
  /\ now = 1
  /\ dir_mtime = [d \in {"new", "cur"} |-> 1]
  /\ m_mtime = [d \in {"new", "cur"} |-> 0]
  /\ emails = maildir_mbox_open(files, cfg)
  /\ pc = "idle"
  /\ sync_i = 0
  /\ sync_check = MX_STATUS_OK
  /\ last = NoOp
  /\ ext_ops = 0
  /\ app_ops = 0
  /\ hits = NoHits
  /\ mstat = mailbox_new
  /\ adata = nm_adata_new
  /\ check_mda = NoScan
  /\ msgs = [w \in Writers |-> message_new]

\* Other programs work on that mailbox; no system call of a pass fails.
NextScan ==
  \/ Tick
  \/ ExtDeliver(MaxExtOps, FileKinds)
  \/ ExtFill(MaxExtOps)
  \/ ExtRemove(MaxExtOps)
  \/ ExtRename(MaxExtOps)
  \/ ExtTouch(MaxExtOps)
  \/ MboxCheck({NoFault})

SpecScan == InitScan /\ [][NextScan]_vars

\* Most deliveries while a maildir_mbox_sync() is under way.
MaxDeliverExtOps == 1

\* The unique name of a message that arrives while the mailbox is written.
LateBase == <<"c">>

\* A delivery agent links a whole message with a name of its own into new/
\* while maildir_mbox_sync() is in its loop, at a later time than the
\* st_mtime its check recorded.
DeliverDuringSync ==
  LET path == PathJoin(NEW_DIR, LateBase)
  IN /\ pc = "sync"
     /\ ~Exists(files, path)
     /\ files' = files \cup {File(path, FreshIno(files), 1, TRUE, 0, TRUE)}
     /\ ExtStep(MaxDeliverExtOps)
     /\ dir_mtime'["new"] > m_mtime["new"]

\* The application changes flags and writes them back; deliveries arrive
\* only while it writes.
NextDeliver ==
  \/ Tick
  \/ DeliverDuringSync
  \/ AppSetFlag
  \/ MboxCheck(StatFaults)
  \/ MboxSyncBegin
  \/ MboxSyncMessage
  \/ MboxSyncEnd

SpecDeliver == InitSync /\ [][NextDeliver]_vars

\* Most deliveries and completions of files in one behaviour.
MaxFillExtOps == 2

\* The writer of an empty file that the last pass of maildir_mbox_check()
\* listed adds the message text; the entries of the directory stay.
ExtFillSkipped ==
  \E f \in Mail(files) :
    /\ last.op = "check"
    /\ \E k \in 1..Len(last.scan) : last.scan[k].email[1].path = f.path
    /\ f.size = 0
    /\ files' = (files \ {f}) \cup {[f EXCEPT !.size = 1]}
    /\ ext_ops < MaxFillExtOps
    /\ ext_ops' = ext_ops + 1
    /\ dir_mtime' = Stamp(dir_mtime, files, files', now)
    /\ last' = [op |-> "fill", path |-> f.path]
    /\ UNCHANGED <<now, emails, m_mtime, cfg, pc, sync_i, sync_check, app_ops, msgs,
                  hits, mstat, adata, check_mda>>

\* Files arrive empty or whole, and empty ones are completed after a pass
\* has seen them.
NextFill ==
  \/ Tick
  \/ ExtDeliver(MaxFillExtOps, {"empty", "msg"})
  \/ ExtFillSkipped
  \/ MboxCheck({NoFault})

SpecFill == Init /\ [][NextFill]_vars

\* Most renames by other programs while passes are split in two.
MaxRaceExtOps == 2

\* maildir_mbox_check() of a mailbox whose two subdirectories have changed,
\* up to the listing of new/: the recorded mtimes are updated before the
\* directories are read.
CheckBegin ==
  /\ pc = "idle"
  /\ cfg.check_new
  /\ changed_dirs(dir_mtime, m_mtime) = MMC_NEW_DIR \cup MMC_CUR_DIR
  /\ check_mda' = check_scan_new(files, cfg)
  /\ m_mtime' = dir_mtime
  /\ pc' = "check"
  /\ last' = NoOp
  /\ UNCHANGED <<files, now, dir_mtime, emails, cfg, sync_i, sync_check, ext_ops, app_ops,
                  msgs, hits, mstat, adata>>

\* The rest of that pass, from the listing of cur/.
CheckEnd ==
  \E r \in {IF pc = "check" THEN check_finish(emails, files, m_mtime, cfg, check_mda)
            ELSE [rc |-> MX_STATUS_OK, emails |-> emails, m_mtime |-> m_mtime,
                  changed |-> MMC_NO_DIRS, scan |-> << >>]} :
     /\ pc = "check"
     /\ emails' = r.emails
     /\ check_mda' = NoScan
     /\ pc' = "idle"
     /\ last' = CheckRecord(r, NoFault, "app")
     /\ UNCHANGED <<files, now, dir_mtime, m_mtime, cfg, sync_i, sync_check, ext_ops, app_ops,
                    msgs, hits, mstat, adata>>

\* Other programs move messages to cur/ at any time, also between the two
\* listings of one pass.
NextRace ==
  \/ Tick
  \/ ExtRename(MaxRaceExtOps)
  \/ MboxCheck({NoFault})
  \/ CheckBegin
  \/ CheckEnd

SpecRace == Init /\ [][NextRace]_vars

\* ------------------------------------------------------------------------
\* The processes that write new messages
\* ------------------------------------------------------------------------

\* What a step of a writer leaves alone.
WriterFrame ==
  /\ last' = NoOp
  /\ UNCHANGED <<now, emails, m_mtime, cfg, pc, sync_i, sync_check, ext_ops, app_ops,
                  hits, mstat, adata, check_mda>>

\* The caller sets up the message: the email whose flags the new message
\* gets, and whether msg->received is set.
MsgBegin ==
  \E w \in Writers, received \in BOOLEAN,
     e \in {<< >>, <<[email_new EXCEPT !.read = TRUE, !.deleted = TRUE]>>} :
    /\ msgs[w].pc = "start"
    /\ msgs' = [msgs EXCEPT ![w] = [@ EXCEPT !.pc = "opening", !.e = e,
                                               !.received = received]]
    /\ UNCHANGED <<files, dir_mtime, hits, mstat, adata, check_mda>>
    /\ WriterFrame

\* maildir_msg_open_new(): one attempt to create the file in tmp/.
MsgOpenNew ==
  \E w \in Writers, r \in Rand, open_err \in BOOLEAN, fdopen_err \in BOOLEAN :
    LET o == maildir_msg_open_new(files, msgs[w], w, r, open_err, fdopen_err)
    IN /\ msgs[w].pc = "opening"
       /\ ~(open_err /\ fdopen_err)
       /\ files' = o.fs
       /\ msgs' = [msgs EXCEPT ![w] = o.msg]
       /\ UNCHANGED dir_mtime
       /\ WriterFrame

\* The caller writes the message to msg->fp.
MsgWrite ==
  \E w \in Writers :
    /\ msgs[w].pc = "open"
    /\ files' = (files \ {FileAt(files, msgs[w].path)})
                   \cup {[FileAt(files, msgs[w].path) EXCEPT !.size = 1, !.by = w]}
    /\ msgs' = [msgs EXCEPT ![w].pc = "written"]
    /\ UNCHANGED dir_mtime
    /\ WriterFrame

\* maildir_msg_commit(): the flush of maildir_commit_message().
MsgCommitFlush ==
  \E w \in Writers, flush_fails \in BOOLEAN :
    LET o == commit_message_flush(files, msgs[w], flush_fails)
    IN /\ msgs[w].pc = "written"
       /\ files' = o.fs
       /\ msgs' = [msgs EXCEPT ![w] = o.msg]
       /\ UNCHANGED dir_mtime
       /\ WriterFrame

\* maildir_msg_commit(): one attempt of the loop of maildir_commit_message().
CommitRename(w, r, rename_err, utime_err) ==
  /\ msgs[w].pc = "rename"
  /\ \E path \in {commit_message_path(msgs[w].path, r)} :
       \E o \in {commit_message_rename(files, msgs[w], path, rename_err, utime_err)} :
         /\ files' = o.fs
         /\ msgs' = [msgs EXCEPT ![w] = o.msg]
         /\ dir_mtime' = Stamp(dir_mtime, files, o.fs, now)
         /\ WriterFrame

MsgCommitRename ==
  \E w \in Writers, r \in Rand, rename_err \in BOOLEAN, utime_err \in BOOLEAN :
    /\ ~(rename_err /\ utime_err)
    /\ utime_err => msgs[w].received
    /\ CommitRename(w, r, rename_err, utime_err)

\* Two processes write messages into the mailbox at the same time.
NextCommit ==
  \/ MsgBegin
  \/ MsgOpenNew
  \/ MsgWrite
  \/ MsgCommitFlush
  \/ MsgCommitRename

InitCommit ==
  /\ Init
  /\ Cardinality(files) = 1
  /\ cfg = [flag_safe |-> FALSE, maildir_trash |-> FALSE, mark_old |-> TRUE,
            check_new |-> TRUE]

SpecCommit == InitCommit /\ [][NextCommit]_vars

\* The loops alone: both processes are about to write a message for which
\* the caller gave neither an email nor a time of receipt.
NextRetry ==
  \/ MsgOpenNew
  \/ MsgWrite
  \/ MsgCommitFlush
  \/ MsgCommitRename

InitRetry ==
  /\ InitMailbox
  /\ Cardinality(files) = 1
  /\ cfg = [flag_safe |-> FALSE, maildir_trash |-> FALSE, mark_old |-> TRUE,
            check_new |-> TRUE]
  /\ msgs = [w \in Writers |-> [message_new EXCEPT !.pc = "opening"]]

\* An attempt of process w with a name that is free and no failure.
CommitRenameFree(w) ==
  \E r \in Rand :
    /\ msgs[w].pc = "rename"
    /\ ~Exists(files, commit_message_path(msgs[w].path, r))
    /\ CommitRename(w, r, FALSE, FALSE)

\* Every process gets to run, and the random numbers do not avoid the
\* free names for ever.
SpecCommitFair ==
  /\ InitRetry
  /\ [][NextRetry]_vars
  /\ \A w \in Writers : WF_vars(CommitRenameFree(w))

\* ------------------------------------------------------------------------
\* The file name codec alone: maildir_gen_flags(), maildir_parse_flags(),
\* maildir_canon_filename()
\* ------------------------------------------------------------------------

\* The letters of a file name that are no flags of NeoMutt, in the orders
\* they can have in edata->maildir_flags.
CodecExtras == {<< >>, <<"D">>, <<"a">>, <<"D", "a">>, <<"a", "D">>}

\* The emails whose flags are written to a file name.
CodecEmails ==
  {[email_new EXCEPT !.path = PathJoin(NEW_DIR, <<"a">>), !.flagged = f, !.replied = r,
                     !.read = s, !.deleted = t, !.old = o, !.maildir_flags = x] :
     f \in BOOLEAN, r \in BOOLEAN, s \in BOOLEAN, t \in BOOLEAN, o \in BOOLEAN,
     x \in CodecExtras}

\* The file names that are made canonical: with and without directory,
\* flags, commas and colons.
CodecNames ==
  {d \o b \o x :
     d \in {<< >>, <<"n", "e", "w", "/">>, <<"c", "u", "r", "/">>, <<"a", ":", "/">>},
     b \in {<< >>, <<"a">>, <<"a", ".", "b">>},
     x \in {<< >>, <<":">>, <<",">>, MARK, MARK \o <<"S">>, <<",", "u">> \o MARK \o <<"F">>,
            <<":", "x", ",", "y">>, <<",", ":">>}}

\* The file names whose flags are parsed: the letters F, S and T in several
\* orders, with and without another letter.
CodecFlagNames ==
  {<<"a">> \o MARK \o x :
     x \in {<< >>, <<"F">>, <<"T">>, <<"F", "T">>, <<"T", "F">>, <<"F", "S", "T">>,
            <<"T", "S", "F">>, <<"S", "T">>, <<"D", "F", "T">>, <<"T", "a", "F">>}}

InitCodec ==
  /\ files = {}
  /\ cfg \in {c \in Configs : c.check_new /\ ~c.maildir_trash /\ ~c.mark_old}
  /\ emails \in {<<e>> : e \in CodecEmails}
                  \cup {<<[email_new EXCEPT !.path = n]>> : n \in CodecNames \cup CodecFlagNames}
  /\ now = 1
  /\ dir_mtime = [d \in {"new", "cur"} |-> 1]
  /\ m_mtime = [d \in {"new", "cur"} |-> 0]
  /\ pc = "codec"
  /\ sync_i = 0
  /\ sync_check = MX_STATUS_OK
  /\ last = NoOp
  /\ ext_ops = 0
  /\ app_ops = 0
  /\ msgs = [w \in Writers |-> message_new]
  /\ hits = NoHits
  /\ mstat = mailbox_new
  /\ adata = nm_adata_new
  /\ check_mda = NoScan

CodecFrame ==
  UNCHANGED <<files, now, dir_mtime, emails, m_mtime, cfg, pc, sync_i, sync_check,
              ext_ops, app_ops, msgs, hits, mstat, adata, check_mda>>

\* maildir_gen_flags() for the email, as maildir_sync_message() calls it.
CodecGenFlags ==
  /\ pc = "codec"
  /\ last = NoOp
  /\ last' = [op |-> "gen_flags", e |-> emails[1], suffix |-> maildir_gen_flags(emails[1])]
  /\ CodecFrame

\* maildir_parse_flags() of the name with that suffix into a new email, as
\* maildir_parse_dir() calls it.
CodecParseFlags ==
  /\ pc = "codec"
  /\ last.op = "gen_flags"
  /\ last' = [op |-> "parse_flags", e |-> last.e, suffix |-> last.suffix,
              parsed |-> maildir_parse_flags(email_new,
                                             maildir_canon_filename(last.e.path) \o last.suffix,
                                             cfg.flag_safe)]
  /\ CodecFrame

\* maildir_parse_flags() of a file name that another program wrote, into a
\* new email, as maildir_parse_dir() calls it.
CodecParseName ==
  /\ pc = "codec"
  /\ last = NoOp
  /\ emails[1].path \in CodecFlagNames
  /\ last' = [op |-> "parse_name", path |-> emails[1].path,
              parsed |-> maildir_parse_flags(email_new, emails[1].path, cfg.flag_safe)]
  /\ CodecFrame

\* maildir_canon_filename() of the path of the email.
CodecCanon ==
  /\ pc = "codec"
  /\ last = NoOp
  /\ last' = [op |-> "canon", src |-> emails[1].path,
              dest |-> maildir_canon_filename(emails[1].path)]
  /\ CodecFrame

\* maildir_canon_filename() of its own result.
CodecCanonAgain ==
  /\ pc = "codec"
  /\ last.op = "canon"
  /\ last' = [op |-> "canon_again", src |-> last.src, first |-> last.dest,
              dest |-> maildir_canon_filename(last.dest)]
  /\ CodecFrame

NextCodec ==
  \/ CodecGenFlags
  \/ CodecParseFlags
  \/ CodecParseName
  \/ CodecCanon
  \/ CodecCanonAgain

SpecCodec == InitCodec /\ [][NextCodec]_vars

\* ------------------------------------------------------------------------
\* ARRAY_SORT(mda, maildir_cmp_inode) on its own, for every inode number
\* ------------------------------------------------------------------------

\* Most entries of an array that is sorted.
MaxEntries == 3

\* Inode numbers: 1, 2, 2^31 + 2 and 2^32 + 1.
SortInodes ==
  {[hi |-> 0, l1 |-> 0, l0 |-> 1], [hi |-> 0, l1 |-> 0, l0 |-> 2],
   [hi |-> 0, l1 |-> 32768, l0 |-> 2], [hi |-> 1, l1 |-> 0, l0 |-> 1]}

\* The arrays maildir_parse_dir() can have filled before it sorts them.
SortArrays ==
  UNION {[1..n -> {maildir_entry_new([email_new EXCEPT !.path = PathJoin(NEW_DIR, <<"a">>)], i)
                     : i \in SortInodes}] : n \in 1..MaxEntries}

InitSort ==
  /\ files = {}
  /\ cfg = [flag_safe |-> FALSE, maildir_trash |-> FALSE, mark_old |-> FALSE,
            check_new |-> TRUE]
  /\ emails = << >>
  /\ now = 1
  /\ dir_mtime = [d \in {"new", "cur"} |-> 1]
  /\ m_mtime = [d \in {"new", "cur"} |-> 0]
  /\ pc = "sort"
  /\ sync_i = 0
  /\ sync_check = MX_STATUS_OK
  /\ last \in {[op |-> "parse_dir", mda |-> mda] : mda \in SortArrays}
  /\ ext_ops = 0
  /\ app_ops = 0
  /\ msgs = [w \in Writers |-> message_new]
  /\ hits = NoHits
  /\ mstat = mailbox_new
  /\ adata = nm_adata_new
  /\ check_mda = NoScan

\* The last statement of maildir_parse_dir(): the array is sorted.
ParseDirSort ==
  /\ pc = "sort"
  /\ last.op = "parse_dir"
  /\ last' = [op |-> "array_sort", mda |-> last.mda, sorted |-> ARRAY_SORT(last.mda)]
  /\ CodecFrame

NextSort == ParseDirSort

SpecSort == InitSort /\ [][NextSort]_vars

\* ------------------------------------------------------------------------
\* Properties of the reconciliation
\* ------------------------------------------------------------------------

\* The subdirectory ("new" or "cur") a stored path lies in.
SubdirOf(path) == IF DirOf(path) = NEW_DIR THEN "new" ELSE "cur"

\* The canonical names the scan of the last pass found.
ScanNames == {last.scan[k].canon_fname : k \in 1..Len(last.scan)}

\* Record i of the last pass was not in the scan, and its subdirectory was
\* rescanned.
Vanished(i) ==
  /\ maildir_canon_filename(last.pre[i].path) \notin ScanNames
  /\ SubdirOf(last.pre[i].path) \in last.changed

\* C1: after a check pass, every record whose canonical name is absent from
\* the fresh scan and whose stored path lies in a rescanned subdirectory is
\* deleted and purge, and the pass returned MX_STATUS_REOPENED.
C1_VanishDetection ==
  last.op = "check" =>
    \A i \in 1..Len(last.pre) :
      Vanished(i) => /\ emails[i].deleted
                     /\ emails[i].purge
                     /\ last.rc = MX_STATUS_REOPENED

\* A pass in which a file that a record stood for was removed by another
\* program, while the record was neither deleted nor purge before.
C1_Witness ==
  /\ last.op = "check"
  /\ last.fault.kind = "none"
  /\ \E i \in 1..Len(last.pre) :
       /\ Vanished(i)
       /\ ~last.pre[i].deleted /\ ~last.pre[i].purge
       /\ ~Exists(files, last.pre[i].path)
       /\ emails[i].deleted /\ emails[i].purge
  /\ last.rc = MX_STATUS_REOPENED

\* The positions of the records the last pass appended.
Appended == (Len(last.pre) + 1)..Len(emails)

\* The candidates of the last scan that the lookup returned for a record.
Matched ==
  {mutt_hash_find(last.scan, maildir_canon_filename(last.pre[j].path)) :
     j \in 1..Len(last.pre)} \ {0}

\* The file is one the last pass listed in a rescanned subdirectory, it can
\* be read and is not empty, and no record had its canonical name.
NewWellFormed(f) ==
  /\ f \in Mail(files)
  /\ SubdirOf(f.path) \in last.changed
  /\ \E k \in 1..Len(last.scan) : last.scan[k].email[1].path = f.path
  /\ f.perm /\ f.size > 0
  /\ \A j \in 1..Len(last.pre) :
       maildir_canon_filename(last.pre[j].path) # maildir_canon_filename(f.path)

\* The flags of the record are those the name of the file stands for.
FlagsFromName(e, f) ==
  LET n == maildir_parse_flags(email_new, NameOf(f.path), cfg.flag_safe)
  IN /\ e.flagged = n.flagged /\ e.replied = n.replied /\ e.read = n.read
     /\ e.deleted = n.deleted /\ e.trash = n.trash
     /\ e.maildir_flags = n.maildir_flags

\* C2: a check pass appends exactly one record for every readable, non-empty
\* file it found in a rescanned subdirectory whose canonical name no record
\* had, with the flags of the file's name; it appends no record for a
\* candidate that the lookup matched with an existing record.
C2_NewAdoption ==
  last.op = "check" =>
    /\ \A f \in files :
         NewWellFormed(f) =>
           /\ Cardinality({i \in Appended : emails[i].path = f.path}) = 1
           /\ \A i \in Appended : emails[i].path = f.path => FlagsFromName(emails[i], f)
    /\ \A k \in Matched, i \in Appended : emails[i].path # last.scan[k].email[1].path

\* A pass that matched one record with its file and adopted a file that
\* another program had delivered.
C2_Witness ==
  /\ last.op = "check"
  /\ last.fault.kind = "none"
  /\ Matched # {}
  /\ \E f \in files :
       /\ NewWellFormed(f)
       /\ \E i \in Appended : emails[i].path = f.path /\ FlagsFromName(emails[i], f)

\* The file is one the last pass listed in a rescanned subdirectory, no
\* record had its canonical name, and it is empty or cannot be opened.
NewBroken(f) ==
  /\ f \in Mail(files)
  /\ SubdirOf(f.path) \in last.changed
  /\ \E k \in 1..Len(last.scan) : last.scan[k].email[1].path = f.path
  /\ ~f.perm \/ f.size = 0
  /\ \A j \in 1..Len(last.pre) :
       maildir_canon_filename(last.pre[j].path) # maildir_canon_filename(f.path)

\* C32: a pass without a failing system call that finds an empty file or a
\* file it cannot open appends no record for it, appends a record for
\* every other new file of the same pass, and does not return
\* MX_STATUS_ERROR.
C32_BrokenFileSkipped ==
  (last.op = "check" /\ last.fault.kind = "none" /\ \E f \in files : NewBroken(f)) =>
     /\ \A f \in files : NewBroken(f) => \A i \in Appended : emails[i].path # f.path
     /\ \A f \in files : NewWellFormed(f) => \E i \in Appended : emails[i].path = f.path
     /\ last.rc # MX_STATUS_ERROR

\* A pass that found an empty file and a good one, both new, and appended
\* a record for the good one only.
C32_Witness ==
  /\ last.op = "check"
  /\ last.fault.kind = "none"
  /\ \E f \in files, g \in files :
       /\ NewBroken(f) /\ f.size = 0
       /\ NewWellFormed(g)
       /\ \A i \in Appended : emails[i].path # f.path
       /\ \E i \in Appended : emails[i].path = g.path
  /\ last.rc = MX_STATUS_NEW_MAIL

\* A pass that found a new file it cannot open.
C32_WitnessUnreadable ==
  /\ last.op = "check"
  /\ last.fault.kind = "none"
  /\ \E f \in files : NewBroken(f) /\ ~f.perm /\ \A i \in Appended : emails[i].path # f.path
  /\ last.rc # MX_STATUS_ERROR

\* C34: a record that is deleted and purge before a check pass, as the
\* pass that found its file gone has left it, is deleted and purge after
\* the pass.
C34_VanishedIrrevocable ==
  last.op = "check" =>
    \A i \in 1..Len(last.pre) :
      (last.pre[i].deleted /\ last.pre[i].purge) => (emails[i].deleted /\ emails[i].purge)

\* A record took part in a flag change: one of the flags that the status
\* MX_STATUS_FLAGS stands for differs before and after the pass.
FlagDelta(i) ==
  \/ emails[i].flagged # last.pre[i].flagged
  \/ emails[i].replied # last.pre[i].replied
  \/ emails[i].read # last.pre[i].read
  \/ emails[i].old # last.pre[i].old
  \/ emails[i].deleted # last.pre[i].deleted

\* The last pass left record i in the state "vanished": it scanned, found no
\* candidate for the record and marked it.
MarkedVanished(i) ==
  /\ last.changed # MMC_NO_DIRS
  /\ ~emails[i].active /\ emails[i].deleted /\ emails[i].purge

\* C4: the status of a check pass is MX_STATUS_ERROR when stat() failed;
\* otherwise MX_STATUS_REOPENED when a record vanished (whether or not
\* messages were adopted), otherwise MX_STATUS_NEW_MAIL when a message was
\* adopted, otherwise MX_STATUS_FLAGS when a flag of a record changed,
\* otherwise MX_STATUS_OK; and when the mtime of neither subdirectory is
\* later than the recorded one, the pass returns MX_STATUS_OK, scans
\* nothing and leaves the emails alone.
C4_StatusPriority ==
  last.op = "check" =>
    /\ last.rc =
         IF last.fault.kind = "stat" /\ cfg.check_new THEN MX_STATUS_ERROR
         ELSE IF \E i \in 1..Len(last.pre) : MarkedVanished(i) THEN MX_STATUS_REOPENED
         ELSE IF Appended # {} THEN MX_STATUS_NEW_MAIL
         ELSE IF \E i \in 1..Len(last.pre) : FlagDelta(i) THEN MX_STATUS_FLAGS
         ELSE MX_STATUS_OK
    /\ last.advanced = {} /\ last.fault.kind # "stat" =>
         /\ last.rc = MX_STATUS_OK
         /\ last.scan = << >>
         /\ emails = last.pre

\* A pass in which one record vanished and a message was adopted, and which
\* returned MX_STATUS_REOPENED.
C4_Witness ==
  /\ last.op = "check"
  /\ \E i \in 1..Len(last.pre) : Vanished(i) /\ MarkedVanished(i)
  /\ Appended # {}
  /\ last.rc = MX_STATUS_REOPENED

\* Two records agree in what the collection shows of a message.
SameRecord(a, b) ==
  /\ a.active = b.active /\ a.path = b.path
  /\ a.flagged = b.flagged /\ a.replied = b.replied /\ a.read = b.read /\ a.old = b.old
  /\ a.deleted = b.deleted /\ a.purge = b.purge

\* C5: when the listing of a subdirectory whose mtime advanced fails in a
\* check pass (opendir() fails, or the listing is interrupted), the pass
\* returns MX_STATUS_ERROR and the emails are as before: none is added and
\* active, path, flags, deleted and purge of every email are unchanged.
C5_ListingFailure ==
  (/\ last.op = "check"
   /\ last.fault.kind \in {"opendir", "sigint"}
   /\ last.fault.dir \in last.changed) =>
     /\ last.rc = MX_STATUS_ERROR
     /\ Len(emails) = Len(last.pre)
     /\ \A i \in 1..Len(last.pre) : SameRecord(emails[i], last.pre[i])

\* The paths the scan of the last pass found.
ScanPaths == {last.scan[k].email[1].path : k \in 1..Len(last.scan)}

\* The stored path of record i of es is the one its flags stand for, and
\* trash is what a sync leaves it as.
NameInSync(es, i) ==
  /\ maildir_sync_message(es, {}, i, NoRewrite, FALSE).partpath = es[i].path
  /\ es[i].trash = es[i].deleted

\* The last pass scanned a mailbox in which nothing had changed: the file of
\* every record of a rescanned subdirectory was found under the stored path,
\* which shows the flags of the record, nothing else was found, and no two
\* files had the same canonical name.
ScanOfUnchanged ==
  /\ last.op = "check"
  /\ last.fault.kind = "none"
  /\ last.changed # MMC_NO_DIRS
  /\ \A i \in 1..Len(last.pre) :
       /\ SubdirOf(last.pre[i].path) \in last.changed => last.pre[i].path \in ScanPaths
       /\ NameInSync(last.pre, i)
  /\ \A q \in ScanPaths : \E i \in 1..Len(last.pre) : last.pre[i].path = q
  /\ Cardinality(ScanNames) = Len(last.scan)

\* C3: a check pass that scans a mailbox in which every file of a record
\* still exists under the same path and flags, and in which there is no
\* other file, returns MX_STATUS_OK and leaves path, flags, deleted, trash
\* and purge of every record as they were.
C3_ReconcileUnchanged ==
  ScanOfUnchanged =>
    /\ last.rc = MX_STATUS_OK
    /\ Len(emails) = Len(last.pre)
    /\ \A i \in 1..Len(last.pre) :
         /\ emails[i].path = last.pre[i].path
         /\ ~FlagDelta(i)
         /\ emails[i].trash = last.pre[i].trash
         /\ emails[i].purge = last.pre[i].purge

\* C18: a record that the user has changed keeps its flagged, replied, read
\* and old values in a check pass, whatever the name of its file says.
C18_ChangedKeepsFlags ==
  last.op = "check" =>
    \A i \in 1..Len(last.pre) :
      last.pre[i].changed =>
        /\ emails[i].flagged = last.pre[i].flagged
        /\ emails[i].replied = last.pre[i].replied
        /\ emails[i].read = last.pre[i].read
        /\ emails[i].old = last.pre[i].old

\* A pass matched a record that the user had changed with a file whose
\* name stands for other flags, after another program had renamed it.
C18_Witness ==
  /\ last.op = "check"
  /\ \E i \in 1..Len(last.pre) :
       LET k == mutt_hash_find(last.scan, maildir_canon_filename(last.pre[i].path))
       IN /\ last.pre[i].changed
          /\ k > 0
          /\ last.scan[k].email[1].read # last.pre[i].read
          /\ last.scan[k].email[1].path # last.pre[i].path
          /\ emails[i].active
          /\ emails[i].path = last.scan[k].email[1].path
          /\ emails[i].read = last.pre[i].read

\* Record i of the last pass had no file in the scan, and its subdirectory
\* was not rescanned.
AssumedUnchanged(i) ==
  /\ last.changed # MMC_NO_DIRS
  /\ maildir_canon_filename(last.pre[i].path) \notin ScanNames
  /\ SubdirOf(last.pre[i].path) \notin last.changed

\* C19: a record that a check pass does not find in its scan, and whose
\* stored path lies in a subdirectory the pass did not rescan, is active
\* after the pass, has the path, flags, deleted and purge values it had,
\* and is not what makes the pass return MX_STATUS_REOPENED.
C19_AssumedUnchanged ==
  last.op = "check" =>
    /\ \A i \in 1..Len(last.pre) :
         AssumedUnchanged(i) =>
           /\ emails[i].active
           /\ emails[i].path = last.pre[i].path
           /\ emails[i].flagged = last.pre[i].flagged
           /\ emails[i].replied = last.pre[i].replied
           /\ emails[i].read = last.pre[i].read
           /\ emails[i].old = last.pre[i].old
           /\ emails[i].deleted = last.pre[i].deleted
           /\ emails[i].purge = last.pre[i].purge
    /\ (last.rc = MX_STATUS_REOPENED /\ \E i \in 1..Len(last.pre) : AssumedUnchanged(i)) =>
         \E j \in 1..Len(last.pre) : ~AssumedUnchanged(j) /\ MarkedVanished(j)

\* A pass that rescanned new/ only, while another program had removed the
\* file of a record in cur/: the record is kept as it was.
C19_Witness ==
  /\ last.op = "check"
  /\ last.changed = MMC_NEW_DIR
  /\ \E i \in 1..Len(last.pre) :
       /\ AssumedUnchanged(i)
       /\ ~Exists(files, last.pre[i].path)
       /\ emails[i].active
       /\ ~emails[i].deleted

\* Another program renamed the file of record i to f: the stored path is
\* gone, f has the record's canonical name and another path, lies in a
\* rescanned subdirectory, was listed by the scan and can be parsed; no other
\* file and no other record has the canonical name.
RenamedTo(i, f) ==
  /\ f \in Mail(files)
  /\ ~Exists(files, last.pre[i].path)
  /\ f.path # last.pre[i].path
  /\ maildir_canon_filename(f.path) = maildir_canon_filename(last.pre[i].path)
  /\ SubdirOf(f.path) \in last.changed
  /\ \E k \in 1..Len(last.scan) : last.scan[k].email[1].path = f.path
  /\ f.perm /\ f.size > 0
  /\ \A g \in Mail(files) :
       maildir_canon_filename(g.path) = maildir_canon_filename(f.path) => g = f
  /\ \A j \in 1..Len(last.pre) :
       maildir_canon_filename(last.pre[j].path) = maildir_canon_filename(f.path) => j = i

\* No record of the last pass was appended for the canonical name of f.
NoSecondRecord(f) ==
  \A j \in Appended :
    maildir_canon_filename(emails[j].path) # maildir_canon_filename(f.path)

\* A record whose canonical name the scan did not have keeps its path, and
\* the records appended by the pass have canonical names of the scan only.
NeverPaired ==
  \A i \in 1..Len(last.pre) :
    Vanished(i) =>
      /\ emails[i].path = last.pre[i].path
      /\ MarkedVanished(i)
      /\ \A j \in Appended :
           maildir_canon_filename(emails[j].path) # maildir_canon_filename(last.pre[i].path)

SyncedByRename == last.op = "sync_message" /\ last.branch = "sync" /\ last.partpath # << >>

\* C9: when the path that maildir_sync_message() computed for a record is
\* already that of a different file, the call fails for that record and
\* the file that was there before is still there.
C9_SyncCollision ==
  (/\ SyncedByRename
   /\ last.partpath # last.pre.path
   /\ Exists(last.prefiles, last.pre.path)
   /\ Exists(last.prefiles, last.partpath)) =>
     /\ ~last.ok
     /\ FileAt(last.prefiles, last.partpath) \in files

\* C10: when the path that maildir_sync_message() computed for a record is
\* byte for byte its current path, the call neither renames nor unlinks
\* anything and the path of the record stays.
C10_NoOpSync ==
  (SyncedByRename /\ last.partpath = last.pre.path) =>
     /\ ~last.renamed
     /\ files = last.prefiles
     /\ emails[last.msgno + 1].path = last.pre.path

\* A record with local changes whose name does not have to change was
\* synced while its file was in place.
C10_Witness ==
  /\ SyncedByRename
  /\ last.partpath = last.pre.path
  /\ last.pre.changed
  /\ Exists(files, last.pre.path)
  /\ last.ok

\* The last step was a call of maildir_sync_mailbox_message() for a record
\* marked deleted while $maildir_trash is unset.
SyncedByUnlink == last.op = "sync_message" /\ last.branch = "unlink"

\* C11: syncing a record marked deleted while $maildir_trash is unset
\* removes the file of the record and nothing else and returns true, also
\* when the file was already gone.
C11_DeleteUnlinks ==
  SyncedByUnlink =>
     /\ last.pre.deleted /\ ~cfg.maildir_trash
     /\ last.ok
     /\ ~Exists(files, last.pre.path)
     /\ files = {f \in last.prefiles : f.path # last.pre.path}

\* A record marked deleted was synced after another program had removed
\* its file.
C11_Witness ==
  /\ SyncedByUnlink
  /\ ~Exists(last.prefiles, last.pre.path)
  /\ last.ok
  /\ pc = "sync"

\* C13: when the rename() of maildir_sync_message() fails, the record has
\* the path, flags, deleted, trash and changed values it had before the
\* call.
C13_FailedRenameKeepsRecord ==
  (SyncedByRename /\ last.renamed /\ ~last.ok) =>
     LET e == emails[last.msgno + 1]
     IN /\ e.path = last.pre.path
        /\ e.flagged = last.pre.flagged /\ e.replied = last.pre.replied
        /\ e.read = last.pre.read /\ e.old = last.pre.old
        /\ e.deleted = last.pre.deleted
        /\ e.trash = last.pre.trash
        /\ e.changed = last.pre.changed

\* C14: when the file of a record is no longer at the stored path at the
\* time of the rename() but is in new/ or cur/ under another name with the
\* same canonical name, maildir_sync_message() finds it there and the sync
\* of the record is not given up.
C14_StaleEscalates ==
  (/\ SyncedByRename
   /\ last.renamed
   /\ ~last.rename_fails
   /\ ~Exists(last.prefiles, last.pre.path)
   /\ \E f \in Mail(last.prefiles) :
        maildir_canon_filename(f.path) = maildir_canon_filename(last.pre.path)) =>
     last.ok

\* ------------------------------------------------------------------------
\* Properties of the file name codec
\* ------------------------------------------------------------------------

\* The characters of a string, as a set.
Chars(s) == {s[i] : i \in 1..Len(s)}

\* C15: the flags parsed from the suffix that maildir_gen_flags() wrote
\* for an email are the flags of the email: flagged, replied, read,
\* deleted, and the same other letters.
C15_FlagsRoundTrip ==
  last.op = "parse_flags" =>
     /\ last.parsed.flagged = last.e.flagged
     /\ last.parsed.replied = last.e.replied
     /\ last.parsed.read = last.e.read
     /\ last.parsed.deleted = last.e.deleted
     /\ Chars(last.parsed.maildir_flags) = Chars(last.e.maildir_flags)

\* C16: maildir_canon_filename() applied to its own result gives that
\* result, and the result has no '/', ',' or ':'.
C16_CanonIdempotent ==
  last.op = "canon_again" =>
     /\ last.dest = last.first
     /\ Chars(last.first) \cap {"/", ",", ":"} = {}

\* A name with a directory, a comma and a flag suffix was made canonical
\* twice.
C16_Witness ==
  /\ last.op = "canon_again"
  /\ last.src = <<"c", "u", "r", "/", "a", ".", "b", ",", "u">> \o MARK \o <<"F">>
  /\ last.dest = <<"a", ".", "b">>

\* The flag letters of a suffix that maildir_gen_flags() wrote: what follows
\* ":2,".
FlagField(suffix) == SubSeq(suffix, Len(MARK) + 1, Len(suffix))

\* The bytes of a string are in non-decreasing order.
ByteSorted(s) == \A i \in 1..(Len(s) - 1) : Ord(s[i]) <= Ord(s[i + 1])

\* C24: the flag letters that maildir_gen_flags() writes after ":2," are in
\* non-decreasing byte order, the letters F, R, S, T and the other letters
\* of the email together.
C24_FlagsSorted ==
  last.op = "gen_flags" /\ last.suffix # << >> =>
     /\ SubSeq(last.suffix, 1, Len(MARK)) = MARK
     /\ ByteSorted(FlagField(last.suffix))

\* The suffix of a flagged and deleted email with the other letters "aD":
\* all letters sorted together.
C24_Witness ==
  /\ last.op = "gen_flags"
  /\ last.e.flagged /\ last.e.deleted /\ ~last.e.replied /\ ~last.e.read
  /\ last.e.maildir_flags = <<"a", "D">>
  /\ last.suffix = MARK \o <<"D", "F", "T", "a">>

\* C27: with $flag_safe, a file name with F and T in its flags is parsed as
\* flagged, trash and not deleted, in whatever order the two letters stand;
\* without $flag_safe, or without F, T is parsed as trash and deleted.
C27_FlagSafeParse ==
  last.op = "parse_name" =>
     LET fl == Chars(FlagField(NameOf(last.path)))
     IN /\ (cfg.flag_safe /\ {"F", "T"} \subseteq fl) =>
             last.parsed.flagged /\ last.parsed.trash /\ ~last.parsed.deleted
        /\ ("T" \in fl /\ (~cfg.flag_safe \/ "F" \notin fl)) =>
             last.parsed.trash /\ last.parsed.deleted

\* The standard letters of the email in the order F, R, S, T.
StandardLetters(e) ==
  (IF e.flagged THEN <<"F">> ELSE << >>) \o (IF e.replied THEN <<"R">> ELSE << >>)
    \o (IF e.read THEN <<"S">> ELSE << >>) \o (IF e.deleted THEN <<"T">> ELSE << >>)

\* C28: maildir_gen_flags() writes ":2,", then the letters F, R, S, T that
\* are set, in this order, and after them the other letters of the email,
\* sorted.
C28_StandardBeforeExtras ==
  last.op = "gen_flags" /\ last.suffix # << >> =>
     last.suffix = MARK \o StandardLetters(last.e) \o qsort_chars(last.e.maildir_flags)

\* The index in the scan of the candidate that the last pass matched with
\* record i: the lookup found an entry under the canonical name of the
\* record, and no earlier record had taken it.  0 when there is none.
CandidateOf(i) ==
  IF \E j \in 1..(i - 1) :
       maildir_canon_filename(last.pre[j].path) = maildir_canon_filename(last.pre[i].path)
    THEN 0
    ELSE mutt_hash_find(last.scan, maildir_canon_filename(last.pre[i].path))

\* The file name has the letter T among its flags.
HasTrashedFlag(path) ==
  LET p == StrRChr(path, ":")
  IN /\ p > 0
     /\ StartsWithAt(path, p + 1, <<"2", ",">>)
     /\ "T" \in Chars(StrFrom(path, p + 3))

\* C25: without $flag_safe, a record that a check pass matched with a file
\* and that had deleted equal to trash before the pass has deleted equal to
\* trash after it, both telling whether the name of the file has the flag T.
C25_TrashLockstep ==
  last.op = "check" /\ ~cfg.flag_safe =>
    \A i \in 1..Len(last.pre) :
      CandidateOf(i) > 0 /\ last.pre[i].deleted = last.pre[i].trash =>
        /\ emails[i].deleted = emails[i].trash
        /\ emails[i].deleted = HasTrashedFlag(last.scan[CandidateOf(i)].email[1].path)

\* A pass without $flag_safe that found the file of an undeleted record
\* under a name with the flag T: the record is deleted and trash.
C25_Witness ==
  /\ last.op = "check"
  /\ ~cfg.flag_safe
  /\ \E i \in 1..Len(last.pre) :
       /\ CandidateOf(i) > 0
       /\ ~last.pre[i].deleted /\ ~last.pre[i].trash
       /\ HasTrashedFlag(last.scan[CandidateOf(i)].email[1].path)
       /\ emails[i].deleted /\ emails[i].trash

\* C26: for a record that a check pass matched with a file, deleted becomes
\* the trash value of the file when the record's deleted differed from its
\* trash before the pass, and is left as it was when they were equal.
C26_PromoteWhenUnequal ==
  last.op = "check" =>
    \A i \in 1..Len(last.pre) :
      CandidateOf(i) > 0 =>
        emails[i].deleted =
          IF last.pre[i].deleted # last.pre[i].trash
            THEN last.scan[CandidateOf(i)].email[1].trash
            ELSE last.pre[i].deleted

\* The 64-bit inode number a is smaller than b.
InoLess(a, b) ==
  \/ a.hi < b.hi
  \/ a.hi = b.hi /\ a.l1 < b.l1
  \/ a.hi = b.hi /\ a.l1 = b.l1 /\ a.l0 < b.l0

\* C33: the array that maildir_parse_dir() returns is in ascending order
\* of the inode numbers, whatever 64-bit values they have.
C33_SortedByInode ==
  last.op = "array_sort" =>
    \A k \in 1..(Len(last.sorted) - 1) :
      ~InoLess(last.sorted[k + 1].inode, last.sorted[k].inode)

\* C17: the canonical name of a record's stored path is the same after a
\* check pass or a sync of the record (rename or rewrite) as before it.
C17_UniqueNameStable ==
  /\ last.op = "sync_message" =>
       maildir_canon_filename(emails[last.msgno + 1].path)
         = maildir_canon_filename(last.pre.path)
  /\ last.op = "check" =>
       \A i \in 1..Len(last.pre) :
          maildir_canon_filename(emails[i].path) = maildir_canon_filename(last.pre[i].path)

\* The last step was a sync of a record that gave its message a file: by
\* rename(), or by maildir_commit_message() when the message was written
\* anew.
SyncPlaced ==
  /\ last.op = "sync_message"
  /\ last.ok
  /\ last.renamed \/ last.rewritten

\* The name has the marker ":2,".
HasMarker(name) == \E k \in 1..Len(name) : StartsWithAt(name, k, MARK)

\* C29: the path under which a sync places the file of a record, by
\* renaming or by committing the message written anew, lies in cur/ exactly
\* when the record is read or old, and in new/ otherwise; a path in cur/
\* has ":2," in its name, also when no flag letter follows.
C29_SubdirAndMarker ==
  SyncPlaced =>
    LET e == emails[last.msgno + 1]
    IN /\ DirOf(e.path) = (IF e.read \/ e.old THEN CUR_DIR ELSE NEW_DIR)
       /\ DirOf(e.path) = CUR_DIR => HasMarker(NameOf(e.path))

\* A record that is old and has no flag was renamed: its file is in cur/
\* and its name ends with ":2,".
C29_Witness ==
  /\ SyncPlaced
  /\ last.renamed
  /\ LET e == emails[last.msgno + 1]
     IN /\ e.old /\ ~e.read /\ ~e.flagged /\ ~e.deleted
        /\ Exists(files, e.path)
        /\ e.path = PathJoin(CUR_DIR, maildir_canon_filename(e.path) \o MARK)

\* A record that is read had its message written anew: the new file is in
\* cur/ under a new name with ":2,S".
C29_WitnessCommit ==
  /\ SyncPlaced
  /\ last.rewritten
  /\ LET e == emails[last.msgno + 1]
     IN /\ e.read
        /\ Exists(files, e.path)
        /\ DirOf(e.path) = CUR_DIR
        /\ maildir_canon_filename(e.path) # maildir_canon_filename(last.pre.path)

\* ------------------------------------------------------------------------
\* Properties of maildir_mbox_sync()
\* ------------------------------------------------------------------------

\* The positions of the records that are left after a sync: all with
\* $maildir_trash, otherwise those that are not both deleted and purge.
Surviving ==
  {i \in 1..Len(emails) : cfg.maildir_trash \/ ~(emails[i].deleted /\ emails[i].purge)}

\* C22: after a sync that succeeded, the records that are left have the
\* indices 0, 1, ..., k-1 in the order of their positions.
C22_IndicesContiguous ==
  last.op = "sync" =>
    \A i \in Surviving :
      emails[i].index = Cardinality({h \in Surviving : h < i})

\* Record j has a change that maildir_sync_mailbox_message() would still
\* write to the disk.
SyncPending(j) ==
  maildir_sync_mailbox_message(emails, files, j, cfg, NoRewrite, FALSE).fs # files

\* C12: when maildir_sync_mailbox_message() fails for one record, the pass
\* goes on: when it has ended no record behind the failed one is left with
\* a change that was not written.
C12_FailureContained ==
  (last.op = "sync_message" /\ ~last.ok /\ pc = "idle") =>
     \A j \in (last.msgno + 2)..Len(emails) : ~SyncPending(j)

\* ------------------------------------------------------------------------
\* Properties of maildir_mbox_check_stats()
\* ------------------------------------------------------------------------

\* The counters and the has-new indicator of a mailbox.
Counters(ms) ==
  <<ms.msg_count, ms.msg_unread, ms.msg_flagged, ms.msg_new, ms.has_new>>

\* What the call of maildir_check_dir() for the subdirectory d made of the
\* counters it was given: nothing, and it did not read the directory.
DirUntouched(d) ==
  IF d = "new" THEN ~last.r.new.read /\ Counters(last.r.new.m) = Counters(last.reset)
  ELSE ~last.r.cur.read /\ Counters(last.r.cur.m) = Counters(last.r.new.m)

\* maildir_check_dir() was called for d to look for new mail.
CheckedForNew(d) == IF d = "new" THEN TRUE ELSE last.r.cur_called /\ last.r.cur_check_new

\* C31: with $mail_check_recent, a call of maildir_check_dir() that looks
\* for new mail in a subdirectory whose st_mtime is earlier than
\* m->last_visited does not read the directory and changes none of
\* msg_count, msg_unread, msg_flagged, msg_new and has_new, whether or not
\* the statistics were asked for.
C31_UnmodifiedDirSkipped ==
  (last.op = "check_stats" /\ last.fault = "none" /\ last.o.mail_check_recent) =>
     \A d \in {"new", "cur"} :
        (CheckedForNew(d) /\ dir_mtime[d] < last.before.last_visited) => DirUntouched(d)

\* ------------------------------------------------------------------------
\* Properties of the notmuch database handle
\* ------------------------------------------------------------------------

\* C40: whatever nm_db_ functions are called on an account: while longrun
\* is set the database is open; nm_db_release() does not close the
\* database during a long run; and when nm_db_longrun_done() has returned,
\* the database is closed and longrun is not set.
C40_LongrunDiscipline ==
  /\ adata.longrun => adata.db # << >>
  /\ (last.op = "nm_db_release" /\ last.before.longrun) => adata.db = last.before.db
  /\ last.op = "nm_db_longrun_done" => adata.db = << >> /\ ~adata.longrun

\* The number of lookups in a row after which the search order is looked at.
AdaptAfter == 3

\* C30: when, beginning with the counters of the program start,
\* maildir_open_find_message() has found the message in new/ several times
\* in a row, the next call searches new/ before cur/.
C30_ProbeOrderAdapts ==
  (last.op = "msg_open" /\ last.fresh /\ last.new_streak >= AdaptAfter) =>
     hits.new > hits.cur

\* The email that the last iteration of the sync loop looked at has no
\* change of its own: changed and attach_del are not set, and deleted
\* equals trash.
NoLocalChange ==
  /\ last.op = "sync_message"
  /\ ~last.pre.changed /\ ~last.pre.attach_del
  /\ last.pre.deleted = last.pre.trash

\* C35: maildir_sync_mailbox_message() neither renames nor removes the
\* file of an email without a change of its own, whatever $maildir_trash
\* is.
C35_NoChangeNoMutation == NoLocalChange => files = last.prefiles

C23_CheckBeforeSync ==
  [][/\ (last'.op = "check" /\ last'.caller = "sync") =>
          /\ files' = files
          /\ sync_check' = last'.rc
          /\ pc' = (IF last'.rc = MX_STATUS_ERROR THEN "idle" ELSE "sync")
          /\ sync_i' = 0
     /\ last'.op = "sync_message" =>
          /\ pc = "sync"
          /\ sync_check # MX_STATUS_ERROR
          /\ last'.msgno = sync_i
          /\ sync_check' = sync_check
          /\ last'.ok => pc' = "sync" /\ sync_i' = sync_i + 1
     /\ last'.op = "sync" =>
          /\ pc = "sync"
          /\ sync_i = Len(emails)
          /\ files' = files
          /\ last'.rc = sync_check
          /\ last'.rc # MX_STATUS_ERROR]_vars

\* A sync in which the check noticed changed flags and a file was renamed
\* for the last record has returned MX_STATUS_FLAGS.
C23_Witness ==
  /\ last.op = "sync"
  /\ last.rc = MX_STATUS_FLAGS
  /\ pc = "idle"
  /\ \E i \in 1..Len(emails) : ~emails[i].deleted /\ emails[i].flagged /\ Exists(files, emails[i].path)

\* A sync whose check failed has returned while a record has a change that
\* is not written.
C23_WitnessError ==
  /\ last.op = "check"
  /\ last.caller = "sync"
  /\ last.rc = MX_STATUS_ERROR
  /\ pc = "idle"
  /\ \E j \in 1..Len(emails) : SyncPending(j)

\* ------------------------------------------------------------------------
\* Properties of maildir_msg_open_new() and maildir_commit_message()
\* ------------------------------------------------------------------------

\* The files in new/ and cur/ that hold a message of process w.
WriterFiles(w) == {f \in Mail(files) : f.by = w}

\* C6: a file that maildir_commit_message() has made visible in new/ or
\* cur/ was flushed to disk and its stream closed before; when the flush
\* fails no rename is attempted and no such file exists.
C6_DurabilityOrdering ==
  \A w \in Writers :
    /\ \A f \in WriterFiles(w) : f.durable /\ ~msgs[w].fp /\ ~msgs[w].flush_failed
    /\ msgs[w].tries # << >> => ~msgs[w].fp /\ ~msgs[w].flush_failed
    /\ msgs[w].flush_failed =>
         /\ msgs[w].pc = "failed" /\ msgs[w].rc = -1
         /\ msgs[w].tries = << >>
         /\ WriterFiles(w) = {}

\* One process has committed its message, the flush of the other failed.
C6_Witness ==
  \E w, v \in Writers :
    /\ msgs[w].pc = "done" /\ WriterFiles(w) # {}
    /\ msgs[v].flush_failed /\ msgs[v].pc = "failed"

\* maildir_commit_message() of process w has returned -1: the message was
\* opened in tmp/, and the flush, a rename or utime() failed.
CommitFailed(w) == msgs[w].pc = "failed" /\ msgs[w].path # << >>

\* C38: when maildir_commit_message() has returned -1, new/ and cur/ hold
\* no file of the message, no path was committed, and the message is
\* still under its name in tmp/.
C38_FailedCommitInvisible ==
  \A w \in Writers :
    CommitFailed(w) =>
      /\ WriterFiles(w) = {}
      /\ msgs[w].committed_path = << >>
      /\ Exists(files, msgs[w].path)

\* The files the mailbox had before the processes began to write.
Delivered == {File(PathJoin(NEW_DIR, <<"a">>), 1, 1, TRUE, 0, TRUE)}

\* C7: a process never shares, truncates or replaces a file: the file in
\* tmp/ of a process is its own, a message that was committed is in its
\* own file under the path committed, two committed messages have
\* different paths, the files that were there before stay, and a process
\* fails only when a system call failed for a reason of its own.
C7_ExclusiveCreation ==
  /\ Delivered \subseteq files
  /\ \A w \in Writers :
       /\ msgs[w].pc \in {"open", "written", "rename"} =>
            /\ Exists(files, msgs[w].path)
            /\ FileAt(files, msgs[w].path).by = w
            /\ msgs[w].pc # "open" => FileAt(files, msgs[w].path).size = 1
       /\ msgs[w].pc = "done" =>
            /\ msgs[w].rc = 0
            /\ FileAt(files, msgs[w].committed_path) \in WriterFiles(w)
            /\ FileAt(files, msgs[w].committed_path).size = 1
       /\ msgs[w].pc = "failed" => msgs[w].fault
  /\ \A w, v \in Writers :
       w # v /\ msgs[w].pc = "done" /\ msgs[v].pc = "done" =>
         msgs[w].committed_path # msgs[v].committed_path

\* Both processes have committed a message into the same subdirectory, and
\* one of them had drawn a name that was taken.
C7_Witness ==
  /\ \A w \in Writers : msgs[w].pc = "done" /\ msgs[w].e = << >>
  /\ \E w \in Writers : Len(msgs[w].tries) > 1
  /\ Cardinality(Mail(files)) = 3

\* What C8 says of the attempts of one commit: an attempt that found the
\* name taken is followed by another one or the commit is still in its
\* loop; an attempt that failed otherwise is the last one and the commit
\* has returned -1; and a second attempt with a free name, after a first
\* one with a name that was taken, succeeds.
CommitAttempts(w) ==
  LET t == msgs[w].tries
  IN /\ \A k \in 1..Len(t) :
          /\ t[k].res = "EEXIST" <=> t[k].exists /\ ~t[k].fault
          /\ t[k].res = "EEXIST" /\ k = Len(t) => msgs[w].pc = "rename" /\ msgs[w].rc = 0
          /\ t[k].res # "EEXIST" => k = Len(t) /\ msgs[w].pc \in {"done", "failed"}
          /\ t[k].res = "ERR" => msgs[w].pc = "failed" /\ msgs[w].rc = -1
     /\ Len(t) >= 2 /\ t[1].res = "EEXIST" /\ ~t[2].exists /\ ~t[2].fault =>
          /\ Len(t) = 2 /\ t[2].res = "OK"
          /\ msgs[w].received \/ msgs[w].pc = "done"

\* C8: the loop of maildir_commit_message() tries again whenever the
\* rename failed with EEXIST, returns -1 at once on any other failure,
\* succeeds at the second attempt when only the first name was taken, and
\* comes to an end when the names drawn do not avoid the free ones for ever.
C8_CommitRetry ==
  /\ [](\A w \in Writers : CommitAttempts(w))
  /\ \A w \in Writers : (msgs[w].pc = "rename") ~> (msgs[w].pc \in {"done", "failed"})

\* A commit whose first name was taken and whose second attempt succeeded.
C8_Witness ==
  \E w \in Writers :
    /\ msgs[w].pc = "done"
    /\ Len(msgs[w].tries) = 2
    /\ msgs[w].tries[1].res = "EEXIST"
    /\ msgs[w].tries[2].res = "OK"


\* The file has a record: some email has its canonical name.
HasRecord(f) ==
  \E i \in 1..Len(emails) :
     maildir_canon_filename(emails[i].path) = maildir_canon_filename(f.path)

\* C36: a pass of maildir_mbox_check() that follows a maildir_mbox_sync()
\* and meets no failing system call leaves a record for every message on
\* disk, also for one that was delivered while the sync was under way.
C36_NoDeliveryLost ==
  (last.op = "check" /\ last.caller = "app" /\ last.after_sync # << >>
     /\ last.fault.kind = "none") =>
     \A f \in Mail(files) : HasRecord(f)

\* C37: the pass of maildir_mbox_check() that follows the completion of a
\* file an earlier pass skipped as empty appends a record for that file.
C37_FilledFileAdopted ==
  [][(last.op = "fill" /\ last'.op = "check") =>
        \E i \in 1..Len(emails') : emails'[i].path = last.path]_vars

\* The files on disk have pairwise distinct canonical names.
DistinctOnDisk(fs) ==
  \A f \in Mail(fs), g \in Mail(fs) :
     maildir_canon_filename(f.path) = maildir_canon_filename(g.path) => f = g

\* C39: after a pass of maildir_mbox_check() over files with pairwise
\* distinct canonical names, no two emails have the same canonical name.
C39_NoDuplicateRecords ==
  (last.op = "check" /\ DistinctOnDisk(files)) =>
     \A i \in 1..Len(emails), j \in 1..Len(emails) :
        maildir_canon_filename(emails[i].path) = maildir_canon_filename(emails[j].path)
          => i = j

====
